---------------------------- MODULE Spec2Model ----------------------------
(***************************************************************************)
(* Conflict-safe bidirectional git synchronisation (sync-v3.js).           *)
(*                                                                         *)
(* One repository is modelled: its working tree, its branch tip, the       *)
(* remote-tracking ref, the remote branch, the stash stack and the backup  *)
(* files that resolveConflicts writes next to the conflicting files.  The  *)
(* operations are pullRepoSafe (with detectConflicts and resolveConflicts),*)
(* pushRepoSafe and isRepoEmpty, one action per awaited step.  Every git   *)
(* or filesystem call that can reject does so nondeterministically, within *)
(* a budget of injected failures.                                          *)
(*                                                                         *)
(* The orchestrator main (SpecMain) is modelled over an account and the    *)
(* search directories of the config, with the per-repository operations   *)
(* as calls that it starts and awaits; syncRepo of the push-only sync      *)
(* (SpecSync) is modelled on the same repository state.                    *)
(***************************************************************************)
EXTENDS Integers, Sequences, FiniteSets, TLC

VARIABLES
    pc,          \* position of the running operation
    wt,          \* working tree: file -> content
    mtime,       \* file -> modification time of the working-tree file
    head,        \* local branch tip: [id, tree]
    origin,      \* remote-tracking ref origin/<branch>: [id, tree]
    remote,      \* branch tip on the server: [id, tree]
    hist,        \* [head, remote]: commit ids contained in each tip
    baseTree,    \* tree of the latest common ancestor of head and remote
    staged,      \* files staged in the index by git.add
    backups,     \* untracked backup files on disk: [file, marker, ts, content]
    tracked,     \* backup files on disk that a commit has recorded
    stashes,     \* stash stack, newest first: [mods, untracked]
    env,         \* [ignored, now, dirExists, failBudget, opsLeft, nextId, tick]
    ps,          \* frame of pullRepoSafe: [caller, dirty, detectFailed, pulls, result]
    rc,          \* frame of resolveConflicts
    pu,          \* frame of pushRepoSafe
    ie,          \* frame of isRepoEmpty
    obs,         \* observations of the last completed top-level operation
    mn,          \* frame of main: config, inventories, counters, calls made
    sy           \* frame of syncRepo (the push-only sync)

vars == <<pc, wt, mtime, head, origin, remote, hist, baseTree, staged, backups,
          tracked, stashes, env, ps, rc, pu, ie, obs, mn, sy>>

gitVars == <<wt, mtime, head, origin, remote, hist, baseTree, staged, backups,
             tracked, stashes>>

---------------------------------------------------------------------------
(* Bounds of the model *)

\* modification times range over 1..MaxMtime (0 is getFileMtime's "absent")
MaxMtime == 2
\* number of git / filesystem calls that may be made to reject in one run
MaxFailures == 2
\* number of top-level operations the orchestrator starts on the repository
MaxOps == 2

---------------------------------------------------------------------------
(* The repository *)

\* the tracked files, in the order git status lists them
FileOrder == <<"a", "b">>
Files == {FileOrder[i] : i \in 1..Len(FileOrder)}

\* file contents: the committed one, a local edit, the edit the remote made
Contents == {"base", "mine", "theirs"}
Mtimes == 1..MaxMtime

Tree(c) == [f \in Files |-> c]

\* src/sync-v3.js getFileHash: md5 of the content, null when unreadable
NoHash == "null"
getFileHash(tree, f) ==
    IF tree[f] \in Contents THEN <<"md5", tree[f]>> ELSE NoHash

\* src/sync-v3.js getFileMtime: mtimeMs, 0 when stat fails
getFileMtime(tree, times, f) ==
    IF tree[f] \in Contents THEN times[f] ELSE 0

\* git status: tracked files that differ from the tip
Modified == {f \in Files : wt[f] # head.tree[f]}
\* status.files.length > 0: modified files, staged files or untracked
\* (not ignored) backup files
Untracked == IF env.ignored THEN {} ELSE backups

\* StatusDirty of a status that always lists a file
StatusDirty_Always == TRUE

\* status.files.length > 0
StatusDirty == Modified # {} \/ staged # {} \/ Untracked # {}

\* files on disk under a backup name, whether or not a commit recorded them
OnDisk == backups \cup tracked

---------------------------------------------------------------------------
(* Failure injection: a call may reject while the budget lasts *)

Outcomes == IF env.failBudget > 0 THEN {TRUE, FALSE} ELSE {TRUE}
Charge(ok) == IF ok THEN env ELSE [env EXCEPT !.failBudget = @ - 1]

---------------------------------------------------------------------------
(* git, as simple-git runs it on the repository *)

\* GitStashPush of a stash that records the changes and keeps them in the
\* working tree
GitStashPush_KeepTree ==
    /\ stashes' = <<[mods |-> [f \in Modified |-> wt[f]],
                     untracked |-> Untracked]>> \o stashes
    /\ UNCHANGED <<wt, mtime, head, origin, remote, hist, baseTree, staged,
                   backups, tracked>>

\* git stash push -u: the modifications of tracked files, the index and the
\* untracked (not ignored) files go to a new stash entry and leave the
\* working tree; with nothing to save, no entry is made
GitStashPush ==
    IF ~StatusDirty
    THEN UNCHANGED gitVars
    ELSE /\ stashes' = <<[mods |-> [f \in Modified |-> wt[f]],
                          untracked |-> Untracked]>> \o stashes
         /\ wt' = head.tree
         /\ mtime' = [f \in Files |-> IF f \in Modified THEN env.now ELSE mtime[f]]
         /\ backups' = backups \ Untracked
         /\ staged' = {}
         /\ UNCHANGED <<head, origin, remote, hist, baseTree, tracked>>

\* git fetch: the remote-tracking ref follows the server
GitFetch == origin' = remote

UpToDate == remote.id \in hist.head
FastForward == hist.head \subseteq hist.remote
\* files the remote changed since the common ancestor
TheirChanges == {f \in Files : remote.tree[f] # baseTree[f]}
OurChanges == {f \in Files : head.tree[f] # baseTree[f]}
\* files a successful pull rewrites in the working tree (result.files)
PullFiles ==
    IF UpToDate THEN {}
    ELSE IF FastForward THEN {f \in Files : remote.tree[f] # head.tree[f]}
    ELSE TheirChanges
\* git refuses to overwrite local modifications, and a merge in which both
\* sides changed one file differently does not complete
PullCan ==
    /\ \A f \in PullFiles : wt[f] = head.tree[f] /\ f \notin staged
    /\ (~UpToDate /\ ~FastForward) =>
          \A f \in TheirChanges \cap OurChanges : remote.tree[f] = head.tree[f]
NewId == 1 + CHOOSE n \in hist.head \cup hist.remote :
                 \A m \in hist.head \cup hist.remote : m <= n
MergedTree == [f \in Files |->
                 IF f \in TheirChanges THEN remote.tree[f] ELSE head.tree[f]]

\* git pull, when it succeeds
GitPull ==
    /\ origin' = remote
    /\ wt' = [f \in Files |-> IF f \in PullFiles THEN remote.tree[f] ELSE wt[f]]
    /\ mtime' = [f \in Files |-> IF f \in PullFiles THEN env.now ELSE mtime[f]]
    /\ IF UpToDate
       THEN UNCHANGED <<head, hist, baseTree>>
       ELSE IF FastForward
       THEN /\ head' = remote
            /\ hist' = [hist EXCEPT !.head = hist.remote]
            /\ baseTree' = remote.tree
       ELSE /\ head' = [id |-> NewId, tree |-> MergedTree]
            /\ hist' = [hist EXCEPT !.head = hist.head \cup hist.remote \cup {NewId}]
            /\ baseTree' = remote.tree
    /\ UNCHANGED <<remote, staged, backups, tracked, stashes>>

---------------------------------------------------------------------------
(* Frames of the operations *)

NoBackup == [file |-> "none", marker |-> "none", ts |-> 0]
Path(b) == [file |-> b.file, marker |-> b.marker, ts |-> b.ts]
Exists(p) == \E b \in OnDisk : Path(b) = p
ContentAt(p) == (CHOOSE b \in OnDisk : Path(b) = p).content

\* src/sync-v3.js backupFile: fs.copyFile(filePath, `${filePath}.${suffix}`);
\* the set of untracked backup files after the copy
backupFile(content, f, marker, ts) ==
    {b \in backups : Path(b) # [file |-> f, marker |-> marker, ts |-> ts]}
      \cup {[file |-> f, marker |-> marker, ts |-> ts, content |-> content]}

NoResult == [pulled |-> FALSE, reason |-> "none", files |-> 0, conflicts |-> 0,
             resolved |-> 0, skipped |-> 0, failed |-> 0]
\* the frame of one pullRepoSafe call; fetched records that the git.fetch()
\* of detectConflicts (line 123) has run, mods0 the uncommitted
\* modifications of the working tree when the call was made
ps0 == [caller |-> "none", dirty |-> FALSE, detectFailed |-> FALSE,
        stashed |-> FALSE, pulls |-> 0, threw |-> "none", budget0 |-> 0,
        clean0 |-> FALSE, fetched |-> FALSE, mods0 |-> <<>>,
        backups0 |-> 0, stashes0 |-> 0, result |-> NoResult]
rc0 == [conflicts |-> <<>>, i |-> 0, resolutions |-> <<>>, timestamp |-> 0,
        localBackup |-> NoBackup, remoteMtime |-> 0, remoteHash |-> NoHash,
        stashCalls |-> 0]

\* one entry of the resolutions list
Resolution(f, kind, reason, backup, rm, lm) ==
    [file |-> f, resolution |-> kind, reason |-> reason, localBackup |-> backup,
     remoteMtime |-> rm, localMtime |-> lm]

Conflict == rc.conflicts[rc.i]

---------------------------------------------------------------------------
(* detectConflicts, src/sync-v3.js 113-167 *)

\* status.files.map(f => f.path), restricted to the tracked files
localChanges == SelectSeq(FileOrder, LAMBDA f : f \in Modified \cup staged)
\* remoteChanges of a diff that names every file
remoteChanges_All == Files

\* git diff <branch> origin/<branch> --name-only
remoteChanges == {f \in Files : head.tree[f] # origin.tree[f]}
\* the descriptor pushed for a file changed in both places
Descriptor(f) == [file |-> f, localMtime |-> getFileMtime(wt, mtime, f),
                  localHash |-> getFileHash(wt, f)]
DetectedConflicts ==
    LET both == SelectSeq(localChanges, LAMBDA f : f \in remoteChanges)
    IN  [k \in 1..Len(both) |-> Descriptor(both[k])]

\* NoConflictPath of a puller that pulls without stashing
NoConflictPath_NoStash == "ps_pull"

\* where pullRepoSafe goes on when conflictCheck.hasConflicts is false
NoConflictPath == IF ps.dirty THEN "ps_stash" ELSE "ps_pull"

\* DetectCatch that hands the error to the caller's catch
DetectCatch_Rethrow ==
    /\ pc' = "ps_ret"
    /\ ps' = [ps EXCEPT !.detectFailed = TRUE, !.threw = "detect",
                        !.result = [NoResult EXCEPT !.reason = "error"]]
    /\ UNCHANGED rc

\* catch (err) { return { hasConflicts: false, conflicts: [] } }
DetectCatch ==
    /\ pc' = NoConflictPath
    /\ ps' = [ps EXCEPT !.detectFailed = TRUE]
    /\ UNCHANGED rc

DC_Status ==
    /\ pc = "dc_status"
    /\ \E ok \in Outcomes :
         /\ env' = Charge(ok)
         /\ IF ok THEN pc' = "dc_fetch" /\ UNCHANGED <<ps, rc>> ELSE DetectCatch
    /\ UNCHANGED <<gitVars, pu, ie, obs, mn, sy>>

DC_Fetch ==
    /\ pc = "dc_fetch"
    /\ \E ok \in Outcomes :
         /\ env' = Charge(ok)
         /\ IF ok
            THEN /\ GitFetch
                 /\ pc' = IF StatusDirty THEN "dc_diff" ELSE NoConflictPath
                 /\ ps' = [ps EXCEPT !.fetched = TRUE]
                 /\ UNCHANGED rc
            ELSE DetectCatch /\ UNCHANGED origin
    /\ UNCHANGED <<wt, mtime, head, remote, hist, baseTree, staged, backups,
                   tracked, stashes, pu, ie, obs, mn, sy>>

DC_Diff ==
    /\ pc = "dc_diff"
    /\ \E ok \in Outcomes :
         /\ env' = Charge(ok)
         /\ IF ok
            THEN /\ rc' = [rc0 EXCEPT !.conflicts = DetectedConflicts, !.i = 1]
                 /\ pc' = IF Len(DetectedConflicts) > 0 THEN "rc_backup"
                          ELSE NoConflictPath
                 /\ UNCHANGED ps
            ELSE DetectCatch
    /\ UNCHANGED <<gitVars, pu, ie, obs, mn, sy>>

---------------------------------------------------------------------------
(* resolveConflicts, src/sync-v3.js 169-246 *)

\* Decide without the comparison of the digests
Decide_NoShortcut(localMtime, remoteMtime, localHash, remoteHash) ==
    IF localMtime > remoteMtime THEN "local-newer" ELSE "remote-newer"

\* step 5: compare timestamps, keep the newer version
Decide(localMtime, remoteMtime, localHash, remoteHash) ==
    IF localMtime > remoteMtime THEN "local-newer"
    ELSE IF localHash = remoteHash THEN "identical"
    ELSE "remote-newer"

\* NextPc of a loop that a skipped or failed file ends
NextPc_Abort == "rc_ret"

\* the loop goes to the next conflict, or the function returns
NextPc == IF rc.i < Len(rc.conflicts) THEN "rc_backup" ELSE "rc_ret"
Advance(res) ==
    [rc EXCEPT !.resolutions = Append(@, res), !.i = @ + 1, !.timestamp = 0,
               !.localBackup = NoBackup, !.remoteMtime = 0, !.remoteHash = NoHash]

\* catch (err) { resolutions.push({ file, resolution: 'failed', ... }) }
ResolveCatch ==
    /\ rc' = Advance(Resolution(Conflict.file, "failed", "error", NoBackup, 0, 0))
    /\ pc' = NextPc

\* 1. backup of the local version; a failed copy skips the file
RC_Backup ==
    /\ pc = "rc_backup"
    /\ \E ok \in Outcomes :
         LET f == Conflict.file
             timestamp == env.tick
         IN  /\ env' = [Charge(ok) EXCEPT !.tick = @ + 1]
             /\ IF ok
                THEN /\ backups' = backupFile(wt[f], f, "local", timestamp)
                     /\ rc' = [rc EXCEPT !.timestamp = timestamp,
                                 !.localBackup = [file |-> f, marker |-> "local",
                                                  ts |-> timestamp]]
                     /\ pc' = "rc_stash"
                ELSE /\ rc' = Advance(Resolution(f, "skipped", "backup failed",
                                                 NoBackup, 0, 0))
                     /\ pc' = NextPc
                     /\ UNCHANGED backups
    /\ UNCHANGED <<wt, mtime, head, origin, remote, hist, baseTree, staged,
                   tracked, stashes, ps, pu, ie, obs, mn, sy>>

\* 2. git stash push -u
RC_Stash ==
    /\ pc = "rc_stash"
    /\ \E ok \in Outcomes :
         /\ env' = Charge(ok)
         /\ IF ok
            THEN /\ GitStashPush
                 /\ rc' = [rc EXCEPT !.stashCalls = @ + 1]
                 /\ pc' = "rc_pull"
            ELSE ResolveCatch /\ UNCHANGED gitVars
    /\ UNCHANGED <<ps, pu, ie, obs, mn, sy>>

\* 3. git pull
RC_Pull ==
    /\ pc = "rc_pull"
    /\ \E ok \in Outcomes :
         /\ env' = Charge(ok)
         /\ IF ok /\ PullCan
            THEN /\ GitPull
                 /\ ps' = [ps EXCEPT !.pulls = @ + 1]
                 /\ pc' = "rc_decide"
                 /\ UNCHANGED rc
            ELSE ResolveCatch /\ UNCHANGED <<gitVars, ps>>
    /\ UNCHANGED <<pu, ie, obs, mn, sy>>

\* 4. and 5. fingerprint of the pulled file, decision, restore and backup of
\* the remote version; out is what the filesystem does: "ok", "copy" (the
\* restore rejects) or "backup" (the copy to the remote backup rejects,
\* which backupFile turns into null and the caller does not look at)
RC_Decide ==
    /\ pc = "rc_decide"
    /\ LET f == Conflict.file
           remoteMtime == getFileMtime(wt, mtime, f)
           remoteHash == getFileHash(wt, f)
           kind == Decide(Conflict.localMtime, remoteMtime, Conflict.localHash,
                          remoteHash)
           seen == [rc EXCEPT !.remoteMtime = remoteMtime, !.remoteHash = remoteHash]
           res == Resolution(f, kind, "none",
                             IF kind = "identical" THEN NoBackup ELSE rc.localBackup,
                             IF kind = "identical" THEN 0 ELSE remoteMtime,
                             IF kind = "identical" THEN 0 ELSE Conflict.localMtime)
           done == [seen EXCEPT !.resolutions = Append(@, res)]
       IN  \E out \in {"ok"} \cup (IF env.failBudget > 0 /\ kind # "identical"
                                   THEN {"backup"} ELSE {})
                       \cup (IF env.failBudget > 0 /\ kind = "local-newer"
                             THEN {"copy"} ELSE {}) :
             /\ env' = Charge(out = "ok")
             /\ IF kind = "local-newer" /\ (out = "copy" \/ ~Exists(rc.localBackup))
                THEN \* fs.copyFile(localBackup, conflict.path) rejects
                     /\ ResolveCatch
                     /\ UNCHANGED <<wt, mtime, backups>>
                ELSE /\ wt' = IF kind = "local-newer"
                              THEN [wt EXCEPT ![f] = ContentAt(rc.localBackup)]
                              ELSE wt
                     /\ mtime' = IF kind = "local-newer"
                                 THEN [mtime EXCEPT ![f] = env.now]
                                 ELSE mtime
                     /\ backups' = IF kind # "identical" /\ out = "ok"
                                   THEN backupFile(wt'[f], f, "remote", rc.timestamp)
                                   ELSE backups
                     /\ rc' = done
                     /\ pc' = "rc_add"
    /\ UNCHANGED <<head, origin, remote, hist, baseTree, staged, tracked,
                   stashes, ps, pu, ie, obs, mn, sy>>

\* 6. git add <file>; a rejection adds a 'failed' entry after the one pushed
RC_Add ==
    /\ pc = "rc_add"
    /\ \E ok \in Outcomes :
         /\ env' = Charge(ok)
         /\ IF ok
            THEN /\ staged' = staged \cup
                        (IF wt[Conflict.file] # head.tree[Conflict.file]
                         THEN {Conflict.file} ELSE {})
                 /\ rc' = [rc EXCEPT !.i = @ + 1, !.timestamp = 0,
                                     !.localBackup = NoBackup, !.remoteMtime = 0,
                                     !.remoteHash = NoHash]
                 /\ pc' = NextPc
            ELSE ResolveCatch /\ UNCHANGED staged
    /\ UNCHANGED <<wt, mtime, head, origin, remote, hist, baseTree, backups,
                   tracked, stashes, ps, pu, ie, obs, mn, sy>>

---------------------------------------------------------------------------
(* pullRepoSafe, src/sync-v3.js 248-301 *)

Count(seq, Test(_)) == Len(SelectSeq(seq, Test))

\* catch (err) { return { pulled: false, reason: err.message } }
PullCatch(step) ==
    [ps EXCEPT !.result = [NoResult EXCEPT !.reason = "error"], !.threw = step]

\* PullOutcome that reports a pull whatever the number of files
PullOutcome_AlwaysPulled(files) ==
    [NoResult EXCEPT !.pulled = TRUE, !.files = files]

\* the result of the plain pull: files pulled, or already up to date
PullOutcome(files) ==
    IF files > 0 THEN [NoResult EXCEPT !.pulled = TRUE, !.files = files]
    ELSE [NoResult EXCEPT !.reason = "up to date"]

\* the result after resolveConflicts: the counts of the resolutions
ConflictOutcome(resolutions, conflicts) ==
    LET resolvedCount == Count(resolutions,
                               LAMBDA r : r.resolution \notin {"failed", "skipped"})
        failedCount == Count(resolutions, LAMBDA r : r.resolution = "failed")
        skippedCount == Count(resolutions, LAMBDA r : r.resolution = "skipped")
    IN  [NoResult EXCEPT !.pulled = resolvedCount > 0 \/ skippedCount > 0,
                         !.conflicts = Len(conflicts), !.resolved = resolvedCount,
                         !.skipped = skippedCount, !.failed = failedCount]

\* entry: simpleGit(repoPath), then the frame of the call
EnterPull(caller) ==
    ps' = [ps0 EXCEPT !.caller = caller, !.budget0 = env.failBudget,
                      !.clean0 = ~StatusDirty /\ UpToDate,
                      !.mods0 = [f \in Modified |-> wt[f]],
                      !.backups0 = Cardinality(OnDisk), !.stashes0 = Len(stashes)]

PS_Status ==
    /\ pc = "ps_status"
    /\ \E ok \in Outcomes :
         /\ env' = Charge(ok)
         /\ IF ok
            THEN pc' = "dc_status" /\ ps' = [ps EXCEPT !.dirty = StatusDirty]
            ELSE pc' = "ps_ret" /\ ps' = PullCatch("status")
    /\ UNCHANGED <<gitVars, rc, pu, ie, obs, mn, sy>>

\* const resolutions = await resolveConflicts(...); the counts; return
RC_Return ==
    /\ pc = "rc_ret"
    /\ ps' = [ps EXCEPT !.result = ConflictOutcome(rc.resolutions, rc.conflicts)]
    /\ pc' = "ps_ret"
    /\ UNCHANGED <<gitVars, env, rc, pu, ie, obs, mn, sy>>

\* uncommitted changes but no conflicts: stash before the pull
PS_Stash ==
    /\ pc = "ps_stash"
    /\ \E ok \in Outcomes :
         /\ env' = Charge(ok)
         /\ IF ok
            THEN GitStashPush /\ pc' = "ps_pull" /\ ps' = [ps EXCEPT !.stashed = TRUE]
            ELSE pc' = "ps_ret" /\ ps' = PullCatch("stash") /\ UNCHANGED gitVars
    /\ UNCHANGED <<rc, pu, ie, obs, mn, sy>>

PS_Pull ==
    /\ pc = "ps_pull"
    /\ \E ok \in Outcomes :
         /\ env' = Charge(ok)
         /\ IF ok /\ PullCan
            THEN /\ GitPull
                 /\ ps' = [ps EXCEPT !.pulls = @ + 1,
                                     !.result = PullOutcome(Cardinality(PullFiles))]
            ELSE ps' = PullCatch("pull") /\ UNCHANGED gitVars
         /\ pc' = "ps_ret"
    /\ UNCHANGED <<rc, pu, ie, obs, mn, sy>>

---------------------------------------------------------------------------
(* The caller *)

NoPush == [pushed |-> FALSE, reason |-> "none", retried |-> FALSE]
\* the frame of one pushRepoSafe call: differ records that the two tips
\* compared at lines 320-324 differ, pulls the pullRepoSafe calls made, adds
\* and commits the git.add('.') and git.commit calls executed, fetched that
\* git.fetch() at line 318 has run, dirty0 that the working tree had a
\* modification when the call was made, mods0 the files modified or staged
\* then and wt0 the working tree then
pu0 == [attempts |-> 0, rejected |-> 0, pull |-> NoResult, result |-> NoPush,
        differ |-> FALSE, pulls |-> 0, adds |-> 0, commits |-> 0,
        fetched |-> FALSE, dirty0 |-> FALSE, mods0 |-> {}, wt0 |-> <<>>]
ie0 == [commits |-> 0, names |-> <<>>, result |-> FALSE, failed |-> FALSE]
obs0 == [op |-> "none", pull |-> NoResult, push |-> NoPush]

\* main, phase 3: const result = await pullRepoSafe(localPath); the
\* constructor simpleGit(repoPath) is outside the try block and throws when
\* the directory is gone
CallPull ==
    /\ pc = "idle"
    /\ env.opsLeft > 0
    /\ env' = [env EXCEPT !.opsLeft = @ - 1]
    /\ IF env.dirExists
       THEN pc' = "ps_status" /\ EnterPull("main")
       ELSE pc' = "escaped" /\ UNCHANGED ps
    /\ UNCHANGED <<gitVars, rc, pu, ie, obs, mn, sy>>

\* return of pullRepoSafe to whoever called it
PS_Return ==
    /\ pc = "ps_ret"
    /\ ps' = ps0
    /\ rc' = rc0
    /\ IF ps.caller = "main"
       THEN /\ pc' = "idle"
            /\ obs' = [obs0 EXCEPT !.op = "pull", !.pull = ps.result]
            /\ UNCHANGED pu
       ELSE /\ pc' = IF ps.caller = "push1" THEN "pu_pulled" ELSE "pu_retry"
            /\ pu' = [pu EXCEPT !.pull = ps.result]
            /\ UNCHANGED obs
    /\ UNCHANGED <<gitVars, env, ie, mn, sy>>

\* the directory of the repository disappears between the scan and the call
RemoveDir ==
    /\ pc = "idle"
    /\ env.dirExists
    /\ env.opsLeft > 0
    /\ env' = [env EXCEPT !.dirExists = FALSE]
    /\ UNCHANGED <<pc, gitVars, ps, rc, pu, ie, obs, mn, sy>>

---------------------------------------------------------------------------
(* pushRepoSafe, src/sync-v3.js 303-365 *)

\* catch (err) { return { pushed: false, reason: err.message } }
PushCatch == [pu EXCEPT !.result = [NoPush EXCEPT !.reason = "error"]]

\* PullAllows that lets the push go on after any pull result
PullAllows_Always(pullResult) == TRUE

\* the pull before the push, or after a rejected push, lets the push go on
PullAllows(pullResult) == pullResult.pulled \/ pullResult.reason = "up to date"

\* Pushed without the retried flag
Pushed_NoRetried(retried) == [NoPush EXCEPT !.pushed = TRUE]

\* return { pushed: true, files, retried }
Pushed(retried) == [NoPush EXCEPT !.pushed = TRUE, !.retried = retried]

\* git push is accepted when the remote tip is contained in the local tip
PushCan == hist.remote \subseteq hist.head
GitPush ==
    /\ remote' = head
    /\ origin' = head
    /\ hist' = [hist EXCEPT !.remote = hist.head]
    /\ baseTree' = head.tree
    /\ UNCHANGED <<wt, mtime, head, staged, backups, tracked, stashes>>

\* git add . and git commit: the index and the untracked files are recorded;
\* with nothing to commit the tip stays
GitAddAll == staged' = Modified \cup staged
GitCommit ==
    IF staged = {} /\ Untracked = {}
    THEN UNCHANGED <<head, hist, staged, backups, tracked>>
    ELSE /\ head' = [id |-> NewId,
                     tree |-> [f \in Files |->
                                 IF f \in staged THEN wt[f] ELSE head.tree[f]]]
         /\ hist' = [hist EXCEPT !.head = @ \cup {NewId}]
         /\ staged' = {}
         /\ tracked' = tracked \cup Untracked
         /\ backups' = backups \ Untracked

CallPush ==
    /\ pc = "idle"
    /\ env.opsLeft > 0
    /\ env' = [env EXCEPT !.opsLeft = @ - 1]
    /\ pc' = IF env.dirExists THEN "pu_status" ELSE "escaped"
    /\ pu' = [pu0 EXCEPT !.dirty0 = Modified # {} \/ staged # {} \/ Untracked # {},
                         !.mods0 = Modified \cup staged, !.wt0 = wt]
    /\ UNCHANGED <<gitVars, ps, rc, ie, obs, mn, sy>>

PU_Status ==
    /\ pc = "pu_status"
    /\ \E ok \in Outcomes :
         /\ env' = Charge(ok)
         /\ IF ok
            THEN IF StatusDirty
                 THEN pc' = "pu_fetch" /\ UNCHANGED pu
                 ELSE /\ pc' = "pu_ret"
                      /\ pu' = [pu EXCEPT !.result =
                                  [NoPush EXCEPT !.reason = "no changes"]]
            ELSE pc' = "pu_ret" /\ pu' = PushCatch
    /\ UNCHANGED <<gitVars, ps, rc, ie, obs, mn, sy>>

PU_Fetch ==
    /\ pc = "pu_fetch"
    /\ \E ok \in Outcomes :
         /\ env' = Charge(ok)
         /\ IF ok
            THEN /\ GitFetch
                 /\ pc' = "pu_revparse"
                 /\ pu' = [pu EXCEPT !.fetched = TRUE]
            ELSE pc' = "pu_ret" /\ pu' = PushCatch /\ UNCHANGED origin
    /\ UNCHANGED <<wt, mtime, head, remote, hist, baseTree, staged, backups,
                   tracked, stashes, ps, rc, ie, obs, mn, sy>>

\* localCommit !== remoteCommit: the Safe Puller runs first
PU_RevParse ==
    /\ pc = "pu_revparse"
    /\ \E ok \in Outcomes :
         /\ env' = Charge(ok)
         /\ IF ~ok
            THEN pc' = "pu_ret" /\ pu' = PushCatch /\ UNCHANGED ps
            ELSE IF head.id # origin.id
            THEN /\ pc' = "ps_status"
                 /\ EnterPull("push1")
                 /\ pu' = [pu EXCEPT !.differ = TRUE, !.pulls = @ + 1]
            ELSE pc' = "pu_add" /\ UNCHANGED <<ps, pu>>
    /\ UNCHANGED <<gitVars, rc, ie, obs, mn, sy>>

PU_Pulled ==
    /\ pc = "pu_pulled"
    /\ IF PullAllows(pu.pull)
       THEN pc' = "pu_add" /\ UNCHANGED pu
       ELSE /\ pc' = "pu_ret"
            /\ pu' = [pu EXCEPT !.result =
                        [NoPush EXCEPT !.reason = "pull failed before push"]]
    /\ UNCHANGED <<gitVars, env, ps, rc, ie, obs, mn, sy>>

PU_Add ==
    /\ pc = "pu_add"
    /\ \E ok \in Outcomes :
         /\ env' = Charge(ok)
         /\ IF ok
            THEN /\ GitAddAll
                 /\ pc' = "pu_commit"
                 /\ pu' = [pu EXCEPT !.adds = @ + 1]
            ELSE /\ pc' = "pu_ret"
                 /\ pu' = [PushCatch EXCEPT !.adds = @ + 1]
                 /\ UNCHANGED staged
    /\ UNCHANGED <<wt, mtime, head, origin, remote, hist, baseTree, backups,
                   tracked, stashes, ps, rc, ie, obs, mn, sy>>

PU_Commit ==
    /\ pc = "pu_commit"
    /\ \E ok \in Outcomes :
         /\ env' = Charge(ok)
         /\ IF ok
            THEN /\ GitCommit
                 /\ pc' = "pu_push"
                 /\ pu' = [pu EXCEPT !.commits = @ + 1]
            ELSE /\ pc' = "pu_ret"
                 /\ pu' = [PushCatch EXCEPT !.commits = @ + 1]
                 /\ UNCHANGED <<head, hist, staged, backups, tracked>>
    /\ UNCHANGED <<wt, mtime, origin, remote, baseTree, stashes, ps, rc, ie, obs,
                   mn, sy>>

\* the first git push; a rejection starts the Safe Puller once more
PU_Push ==
    /\ pc = "pu_push"
    /\ \E ok \in Outcomes :
         /\ env' = Charge(ok)
         /\ IF ok /\ PushCan
            THEN /\ GitPush
                 /\ pc' = "pu_ret"
                 /\ pu' = [pu EXCEPT !.attempts = @ + 1, !.result = Pushed(FALSE)]
                 /\ UNCHANGED ps
            ELSE /\ pc' = "ps_status"
                 /\ EnterPull("push2")
                 /\ pu' = [pu EXCEPT !.attempts = @ + 1, !.rejected = @ + 1,
                                     !.pulls = @ + 1]
                 /\ UNCHANGED gitVars
    /\ UNCHANGED <<rc, ie, obs, mn, sy>>

\* after the second pull: retry, or throw 'Push rejected and pull failed'
PU_Retry ==
    /\ pc = "pu_retry"
    /\ IF PullAllows(pu.pull)
       THEN pc' = "pu_push2" /\ UNCHANGED pu
       ELSE pc' = "pu_ret" /\ pu' = PushCatch
    /\ UNCHANGED <<gitVars, env, ps, rc, ie, obs, mn, sy>>

\* the second git push, inside the catch block: a rejection is thrown to the
\* outer catch
PU_Push2 ==
    /\ pc = "pu_push2"
    /\ \E ok \in Outcomes :
         /\ env' = Charge(ok)
         /\ IF ok /\ PushCan
            THEN /\ GitPush
                 /\ pu' = [pu EXCEPT !.attempts = @ + 1, !.result = Pushed(TRUE)]
            ELSE /\ pu' = [PushCatch EXCEPT !.attempts = @ + 1, !.rejected = @ + 1]
                 /\ UNCHANGED gitVars
         /\ pc' = "pu_ret"
    /\ UNCHANGED <<ps, rc, ie, obs, mn, sy>>

PU_Return ==
    /\ pc = "pu_ret"
    /\ pc' = "idle"
    /\ obs' = [obs0 EXCEPT !.op = "push", !.push = pu.result]
    /\ pu' = pu0
    /\ UNCHANGED <<gitVars, env, ps, rc, ie, mn, sy>>

---------------------------------------------------------------------------
(* Frames of the orchestrator (main, src/sync-v3.js 511-613) and of the
   push-only syncRepo (src/unnamed/part_001 106-155) *)

\* const results = { pulled: 0, pushed: 0, ... }
results0 == [pulled |-> 0, pushed |-> 0, cloned |-> 0, emptyDeleted |-> 0,
             upToDate |-> 0, failed |-> 0, conflictsResolved |-> 0]

\* config.json as main reads it; searchDirs may be absent from the file
config0 == [githubToken |-> "", dryRun |-> FALSE, deleteEmptyRepos |-> FALSE,
            searchDirs |-> [defined |-> FALSE, dirs |-> <<>>]]

\* getAllRepos(username, token) before its first statement: endpoint is what
\* the list endpoint serves for the pages 1, 2, ... (nothing after them, or,
\* when endless, its last page again and again), page and repos are the
\* locals, batch the page last received, requested the page numbers asked for
ga0 == [pc |-> "off", endpoint |-> <<>>, endless |-> FALSE, page |-> 1,
        repos |-> <<>>, batch |-> <<>>, requested |-> <<>>, result |-> <<>>,
        threw |-> FALSE]

\* main before its first statement.  github and disk are the account and
\* the search directories as they are; githubRepos, localRepos, totalOps,
\* currentOp and results are main's locals, k the position of the running
\* loop, inflight the calls started and not yet settled, log the calls made
\* on repositories, console and failCalls the reports of a fatal error
mn0 == [pc |-> "off", config |-> config0, github |-> <<>>,
        disk |-> [d \in {"d1", "d2"} |-> <<>>],
        dashTask |-> FALSE, sent |-> FALSE,
        githubRepos |-> <<>>, localRepos |-> <<>>, totalOps |-> 0,
        currentOp |-> 0, k |-> 1, isEmpty |-> FALSE, results |-> results0,
        inflight |-> {}, log |-> <<>>, console |-> 0, failCalls |-> 0,
        status |-> "running", cause |-> "none", ga |-> ga0]

\* syncRepo(repoPath, commitMessage, dryRun) before its first statement
NoSync == [synced |-> FALSE, reason |-> "none", committed |-> FALSE]
sy0 == [pc |-> "off", dryRun |-> FALSE, isRepo |-> TRUE, dirty |-> FALSE,
        read |-> FALSE, adds |-> 0, commits |-> 0, pushes |-> 0,
        threw |-> FALSE, result |-> NoSync]

---------------------------------------------------------------------------
(* Initial states: a clone of the base commit, local edits with any
   modification time, and a remote that has or has not moved on *)

Commit(id, tree) == [id |-> id, tree |-> tree]

Init ==
    /\ pc = "idle"
    /\ wt \in [Files -> Contents]
    /\ mtime \in [Files -> Mtimes]
    /\ \A f \in Files : wt[f] = "base" => mtime[f] = 1
    /\ head = Commit(0, Tree("base"))
    /\ origin = head
    /\ \E t \in [Files -> {"base", "theirs"}] :
         remote = IF t = Tree("base") THEN head ELSE Commit(1, t)
    /\ hist = [head |-> {0}, remote |-> {0, remote.id}]
    /\ baseTree = Tree("base")
    /\ staged = {}
    /\ backups = {}
    /\ tracked = {}
    /\ stashes = <<>>
    /\ env \in [ignored : BOOLEAN, now : Mtimes, dirExists : {TRUE},
                failBudget : {MaxFailures}, opsLeft : {MaxOps}, tick : {1}]
    /\ ps = ps0
    /\ rc = rc0
    /\ pu = pu0
    /\ ie = ie0
    /\ obs = obs0
    /\ mn = mn0
    /\ sy = sy0

Next ==
    \/ CallPull \/ RemoveDir
    \/ PS_Status \/ DC_Status \/ DC_Fetch \/ DC_Diff
    \/ RC_Backup \/ RC_Stash \/ RC_Pull \/ RC_Decide \/ RC_Add \/ RC_Return
    \/ PS_Stash \/ PS_Pull \/ PS_Return
    \/ CallPush \/ PU_Status \/ PU_Fetch \/ PU_RevParse \/ PU_Pulled \/ PU_Add
    \/ PU_Commit \/ PU_Push \/ PU_Retry \/ PU_Push2 \/ PU_Return

Spec == Init /\ [][Next]_vars

---------------------------------------------------------------------------
(* isRepoEmpty, src/sync-v3.js 411-431 *)

\* number of commits a repository may have
MaxCommits == 2
\* number of entries its top-level tree may list
MaxEntries == 2

\* file names are sequences of characters
README_md == <<"R", "E", "A", "D", "M", "E", ".", "m", "d">>
readme == <<"r", "e", "a", "d", "m", "e">>
ReadMe_txt == <<"R", "e", "a", "d", "M", "e", ".", "t", "x", "t">>
LICENSE == <<"L", "I", "C", "E", "N", "S", "E">>
read == <<"r", "e", "a", "d">>
xreadme == <<"x", "r", "e", "a", "d", "m", "e">>
Names == {README_md, readme, ReadMe_txt, LICENSE, read, xreadme}

UpperCase == <<"A", "B", "C", "D", "E", "F", "G", "H", "I", "J", "K", "L", "M",
               "N", "O", "P", "Q", "R", "S", "T", "U", "V", "W", "X", "Y", "Z">>
LowerCase == <<"a", "b", "c", "d", "e", "f", "g", "h", "i", "j", "k", "l", "m",
               "n", "o", "p", "q", "r", "s", "t", "u", "v", "w", "x", "y", "z">>
WhiteSpace == {" ", "\n", "\t"}

\* String.prototype.toLowerCase
toLowerCase(str) ==
    [k \in 1..Len(str) |->
       IF \E j \in 1..Len(UpperCase) : UpperCase[j] = str[k]
       THEN LowerCase[CHOOSE j \in 1..Len(UpperCase) : UpperCase[j] = str[k]]
       ELSE str[k]]

\* String.prototype.startsWith
startsWith(str, prefix) ==
    Len(str) >= Len(prefix) /\ SubSeq(str, 1, Len(prefix)) = prefix

\* String.prototype.trim
RECURSIVE trimStart(_)
trimStart(str) ==
    IF str # <<>> /\ Head(str) \in WhiteSpace THEN trimStart(Tail(str)) ELSE str
RECURSIVE trimEnd(_)
trimEnd(str) ==
    IF str # <<>> /\ str[Len(str)] \in WhiteSpace
    THEN trimEnd(SubSeq(str, 1, Len(str) - 1)) ELSE str
trim(str) == trimEnd(trimStart(str))

\* String.prototype.split('\n'): the pieces between the separators
RECURSIVE split(_, _)
split(str, piece) ==
    IF str = <<>> THEN <<piece>>
    ELSE IF Head(str) = "\n" THEN <<piece>> \o split(Tail(str), <<>>)
    ELSE split(Tail(str), Append(piece, Head(str)))

\* git ls-tree --name-only HEAD: one line per entry of the top-level tree
RECURSIVE lsTree(_)
lsTree(names) ==
    IF names = <<>> THEN <<>>
    ELSE Head(names) \o <<"\n">> \o lsTree(Tail(names))

\* git log rejects on a branch that has no commit yet ("fatal: your current
\* branch does not have any commits yet", exit status 128)
LogCan == ie.commits > 0

\* fileList.length === 1 && fileList[0].toLowerCase().startsWith('readme')
OnlyReadme(files) ==
    LET fileList == split(trim(files), <<>>)
    IN  Len(fileList) = 1 /\ startsWith(toLowerCase(fileList[1]), readme)

\* after const log = await git.log()
AfterLog(total) ==
    IF total = 0 THEN "true" ELSE IF total = 1 THEN "lstree" ELSE "false"

IE_Log ==
    /\ pc = "ie_log"
    /\ \E ok \in Outcomes :
         /\ env' = Charge(ok)
         /\ IF ok /\ LogCan
            THEN /\ pc' = IF AfterLog(ie.commits) = "lstree" THEN "ie_lstree"
                          ELSE "ie_done"
                 /\ ie' = [ie EXCEPT !.result = AfterLog(ie.commits) = "true"]
            ELSE \* catch (err) { return false }
                 /\ pc' = "ie_done"
                 /\ ie' = [ie EXCEPT !.result = FALSE, !.failed = TRUE]
    /\ UNCHANGED <<gitVars, ps, rc, pu, obs, mn, sy>>

IE_LsTree ==
    /\ pc = "ie_lstree"
    /\ \E ok \in Outcomes :
         /\ env' = Charge(ok)
         /\ IF ok
            THEN ie' = [ie EXCEPT !.result = OnlyReadme(lsTree(ie.names))]
            ELSE ie' = [ie EXCEPT !.result = FALSE, !.failed = TRUE]
         /\ pc' = "ie_done"
    /\ UNCHANGED <<gitVars, ps, rc, pu, obs, mn, sy>>

\* the trees a repository may have: no entry without a commit
Trees == UNION {[1..n -> Names] : n \in 0..MaxEntries}

InitEmpty ==
    /\ pc = "ie_log"
    /\ wt = Tree("base")
    /\ mtime = [f \in Files |-> 1]
    /\ head = Commit(0, Tree("base"))
    /\ origin = head
    /\ remote = head
    /\ hist = [head |-> {0}, remote |-> {0}]
    /\ baseTree = Tree("base")
    /\ staged = {}
    /\ backups = {}
    /\ tracked = {}
    /\ stashes = <<>>
    /\ env = [ignored |-> FALSE, now |-> 1, dirExists |-> TRUE,
              failBudget |-> MaxFailures, opsLeft |-> 0, tick |-> 1]
    /\ ps = ps0
    /\ rc = rc0
    /\ pu = pu0
    /\ \E c \in 0..MaxCommits, t \in Trees :
         /\ c = 0 => t = <<>>
         /\ \A j, k \in 1..Len(t) : j # k => t[j] # t[k]
         /\ ie = [ie0 EXCEPT !.commits = c, !.names = t]
    /\ obs = obs0
    /\ mn = mn0
    /\ sy = sy0

NextEmpty == IE_Log \/ IE_LsTree

SpecEmpty == InitEmpty /\ [][NextEmpty]_vars

---------------------------------------------------------------------------
(* main, src/sync-v3.js 511-613: the four phases over the account and the
   search directories.  pullRepoSafe, cloneRepo, isRepoEmpty, pushRepoSafe,
   getAllRepos and the remote delete are calls that main starts and awaits;
   a call settles with any result its code can return, or throws where the
   code lets an exception out. *)

\* repositories of the account, at most
MaxRemote == 2
\* git repositories in one search directory, at most
MaxDirEntries == 1

\* repository and directory names are sequences of characters
App == <<"A", "p", "p">>
app == <<"a", "p", "p">>
lib == <<"l", "i", "b">>
Cfg == <<"C", "f", "g">>
RemoteNames == {App, lib, Cfg}
EntryNames == {app, lib}
SearchDirs == {<<>>, <<"d1">>, <<"d1", "d2">>}

\* the sequences without repetition of at most n names of a pool
Listings(pool, n) ==
    {q \in UNION {[1..m -> pool] : m \in 0..n} :
       \A i, j \in DOMAIN q : i # j => q[i] # q[j]}

\* new Map(), in insertion order: repos.set, localRepos.get, localRepos.delete
MapHas(map, key) == \E i \in DOMAIN map : map[i].key = key
MapGet(map, key) == map[CHOOSE i \in DOMAIN map : map[i].key = key].path
MapSet(map, key, path) ==
    IF MapHas(map, key)
    THEN [i \in DOMAIN map |->
            IF map[i].key = key THEN [key |-> key, path |-> path] ELSE map[i]]
    ELSE Append(map, [key |-> key, path |-> path])
MapDelete(map, key) == SelectSeq(map, LAMBDA e : e.key # key)

\* path.join(dir, entry)
join(dir, entry) == <<dir, entry>>

\* findLocalRepos: for (const entry of entries) repos.set(entry.toLowerCase(),
\* fullPath), for every search directory in turn (no name is excluded)
RECURSIVE ScanEntries(_, _, _)
ScanEntries(repos, dir, entries) ==
    IF entries = <<>> THEN repos
    ELSE ScanEntries(MapSet(repos, toLowerCase(Head(entries)),
                            join(dir, Head(entries))),
                     dir, Tail(entries))
RECURSIVE ScanDirs(_, _, _)
ScanDirs(repos, searchDirs, disk) ==
    IF searchDirs = <<>> THEN repos
    ELSE ScanDirs(ScanEntries(repos, Head(searchDirs), disk[Head(searchDirs)]),
                  Tail(searchDirs), disk)
findLocalRepos(searchDirs, disk) == ScanDirs(<<>>, searchDirs, disk)

\* a call that main makes, and what it settles with
Call(op, key, path) == [op |-> op, key |-> key, path |-> path]
\* a settled call: threw, ok, reason and resolved are what main reads of it
\* (the exception, result.pulled / pushed / cloned / deleted, result.reason,
\* result.resolved); inner is the number of files that the resolveConflicts
\* calls made during the call resolved, which pullRepoSafe returns as
\* resolved (line 273) and the return values of pushRepoSafe (344, 355, 363)
\* do not carry (the one at 329 carries pullResult, which main does not read)
Res(threw, ok, reason, resolved) ==
    [threw |-> threw, ok |-> ok, reason |-> reason, resolved |-> resolved,
     inner |-> resolved]
\* what main reads from a promise it did not await: every field undefined
Pending == Res(FALSE, FALSE, "none", 0)

\* the results of the calls: getAllRepos returns or throws (githubApi);
\* pullRepoSafe returns pulled (with the number of resolved files), 'up to
\* date' or a failure, or throws from simpleGit(repoPath); cloneRepo,
\* isRepoEmpty and deleteEmptyRepo catch everything; pushRepoSafe returns
\* pushed, 'no changes' or a failure, or throws from simpleGit(repoPath),
\* and when it got past the status its pullRepoSafe calls (326, 349) may have
\* resolved conflicts
Settles(op) ==
    CASE op = "getAllRepos" ->
           {Res(FALSE, TRUE, "none", 0), Res(TRUE, FALSE, "error", 0)}
      [] op = "pull" ->
           {Res(FALSE, TRUE, "none", r) : r \in {0, Len(FileOrder)}}
             \cup {Res(FALSE, FALSE, "up to date", 0),
                   Res(FALSE, FALSE, "error", 0), Res(TRUE, FALSE, "error", 0)}
      [] op = "push" ->
           {[Res(FALSE, ok, IF ok THEN "none" ELSE "error", 0)
               EXCEPT !.inner = r] : ok \in BOOLEAN, r \in {0, Len(FileOrder)}}
             \cup {Res(FALSE, FALSE, "no changes", 0),
                   Res(TRUE, FALSE, "error", 0)}
      [] OTHER -> {Res(FALSE, TRUE, "none", 0), Res(FALSE, FALSE, "error", 0)}

\* one line of the log of calls made on repositories
Entry(op, key, path, res, local) ==
    [op |-> op, key |-> key, path |-> path, threw |-> res.threw,
     ok |-> res.ok, reason |-> res.reason, resolved |-> res.resolved,
     inner |-> res.inner, local |-> local]

\* an exception leaves main: main().catch is next
Throw(n, cause) == [n EXCEPT !.pc = "caught", !.cause = cause]

\* dashCatch that lets the failure of a notification out
dashCatch_Rethrow(delivered) == IF delivered THEN "ignore" ELSE "throw"

\* dashLog, dashProgress, completeDashboard: catch (err) { // Ignore }
dashCatch(delivered) == "ignore"

\* the notifications of one step of main: without a dashboard task nothing
\* is sent, with one the request is delivered or fails
Dash(n) ==
    {IF mn.dashTask /\ dashCatch(delivered) = "throw"
     THEN Throw(mn, "dashboard")
     ELSE [n EXCEPT !.sent = mn.dashTask /\ delivered] : delivered \in BOOLEAN}

\* if (result.pulled) ... else if (result.reason === 'up to date') ... else
\* ...; if (result.resolved) results.conflictsResolved += result.resolved
AfterPull(results, res) ==
    [results EXCEPT
       !.pulled = IF res.ok THEN @ + 1 ELSE @,
       !.upToDate = IF ~res.ok /\ res.reason = "up to date" THEN @ + 1 ELSE @,
       !.failed = IF ~res.ok /\ res.reason # "up to date" THEN @ + 1 ELSE @,
       !.conflictsResolved = @ + res.resolved]

\* AfterClone that counts a failed clone as cloned and as failed
AfterClone_CountsBoth(results, res) ==
    IF res.ok THEN [results EXCEPT !.cloned = @ + 1]
    ELSE [results EXCEPT !.cloned = @ + 1, !.failed = @ + 1]

\* if (result.cloned) results.cloned++; else results.failed++
AfterClone(results, res) ==
    IF res.ok THEN [results EXCEPT !.cloned = @ + 1]
    ELSE [results EXCEPT !.failed = @ + 1]

\* if (result.pushed) ... else if (result.reason === 'no changes') ... else ...
AfterPush(results, res) ==
    [results EXCEPT
       !.pushed = IF res.ok THEN @ + 1 ELSE @,
       !.upToDate = IF ~res.ok /\ res.reason = "no changes" THEN @ + 1 ELSE @,
       !.failed = IF ~res.ok /\ res.reason # "no changes" THEN @ + 1 ELSE @]

\* if (ghResult.deleted) results.emptyDeleted++
AfterDelete(results, res) ==
    IF res.ok THEN [results EXCEPT !.emptyDeleted = @ + 1] ELSE results

\* deleteLocalRepo(repoPath, dryRun): a log line in both branches
deleteLocalRepo(dryRun) ==
    [deleted |-> FALSE, note |-> IF dryRun THEN "dryRun" ELSE "manual"]

\* the local directory as the log records it after deleteLocalRepo
Local(dryRun) == IF deleteLocalRepo(dryRun).deleted THEN "deleted" ELSE "kept"

\* deleteEmptyRepo that sends the DELETE request in a dry run too
DeleteIssued_Always(dryRun) == TRUE

\* deleteEmptyRepo: if (dryRun) return { deleted: false, dryRun: true }
DeleteIssued(dryRun) == ~dryRun

\* main with the result of a call in hand: the statements after the await
Continue(n, call, res) ==
    CASE call.op = "getAllRepos" ->
           IF res.threw THEN Throw(n, "getAllRepos")
           ELSE [n EXCEPT !.githubRepos = n.github, !.pc = "phase2"]
      [] call.op = "pull" ->
           LET logged == [n EXCEPT !.log = Append(@, Entry("pull", call.key,
                                                   call.path, res, "kept"))]
           IN  IF res.threw THEN Throw(logged, "pullRepoSafe")
               ELSE [logged EXCEPT !.results = AfterPull(@, res),
                                   !.localRepos = MapDelete(@, call.key),
                                   !.k = @ + 1, !.pc = "phase3"]
      [] call.op = "clone" ->
           [n EXCEPT !.log = Append(@, Entry("clone", call.key, call.path,
                                             res, "kept")),
                     !.results = AfterClone(@, res),
                     !.k = @ + 1, !.pc = "phase3"]
      [] call.op = "isEmpty" -> [n EXCEPT !.isEmpty = res.ok, !.pc = "decide"]
      [] call.op = "delete" ->
           [n EXCEPT !.log = Append(@, Entry("retire", call.key, call.path,
                                             res, Local(n.config.dryRun))),
                     !.results = AfterDelete(@, res),
                     !.k = @ + 1, !.pc = "phase4"]
      [] call.op = "push" ->
           LET logged == [n EXCEPT !.log = Append(@, Entry("push", call.key,
                                                   call.path, res, "kept"))]
           IN  IF res.threw THEN Throw(logged, "pushRepoSafe")
               ELSE [logged EXCEPT !.results = AfterPush(@, res),
                                   !.k = @ + 1, !.pc = "phase4"]

\* Awaited that leaves the per-repository calls of main unawaited
Awaited_NotRepoCalls(op) == op \in {"getAllRepos", "isEmpty"}

\* every call of main is awaited
Awaited(op) == TRUE

\* main starts a call: with await it is suspended until the call settles,
\* without it goes on with the pending promise
Start(n, call) ==
    IF Awaited(call.op)
    THEN [n EXCEPT !.inflight = @ \cup {call}, !.pc = "await"]
    ELSE Continue([n EXCEPT !.inflight = @ \cup {call}], call, Pending)

engineVars == <<pc, gitVars, env, ps, rc, pu, ie, obs>>

\* await initDashboard(): dashTask is set when the request went through
M_InitDashboard ==
    /\ mn.pc = "start"
    /\ \E up \in BOOLEAN : mn' = [mn EXCEPT !.dashTask = up, !.pc = "config"]
    /\ UNCHANGED <<engineVars, sy>>

\* the config file is read; if (!config.githubToken) { dashLog(error);
\* failDashboard(error); return }
M_Config ==
    /\ mn.pc = "config"
    /\ mn' \in Dash(IF mn.config.githubToken = ""
                    THEN [mn EXCEPT !.pc = "ended", !.status = "failed",
                                    !.cause = "githubToken",
                                    !.console = @ + 1, !.failCalls = @ + 1]
                    ELSE [mn EXCEPT !.pc = "phase1"])
    /\ UNCHANGED <<engineVars, sy>>

\* Phase 1: const githubRepos = await getAllRepos(...)
M_GetAllRepos ==
    /\ mn.pc = "phase1"
    /\ mn' \in Dash(Start(mn, Call("getAllRepos", <<>>, <<>>)))
    /\ UNCHANGED <<engineVars, sy>>

\* totalOps that counts the remote repositories only
totalOps_RemoteOnly(githubRepos, localRepos) == Len(githubRepos)

\* const totalOps = githubRepos.length + localRepos.size
totalOps(githubRepos, localRepos) == Len(githubRepos) + Len(localRepos)

\* Phase 2: const localRepos = await findLocalRepos(config.searchDirs, ...);
\* for (const dir of undefined) throws a TypeError
M_FindLocalRepos ==
    /\ mn.pc = "phase2"
    /\ LET found == findLocalRepos(mn.config.searchDirs.dirs, mn.disk)
       IN  mn' \in Dash(IF ~mn.config.searchDirs.defined
                        THEN Throw(mn, "searchDirs")
                        ELSE [mn EXCEPT
                                !.localRepos = found,
                                !.totalOps = totalOps(mn.githubRepos, found),
                                !.currentOp = 0, !.k = 1, !.pc = "phase3"])
    /\ UNCHANGED <<engineVars, sy>>

\* Phase 3, one iteration: pull the paired repository or clone the missing
\* one; path.join(config.searchDirs[0], ...) throws a TypeError when the
\* list of search directories is empty
M_Phase3 ==
    /\ mn.pc = "phase3"
    /\ IF mn.k > Len(mn.githubRepos)
       THEN mn' \in Dash([mn EXCEPT !.pc = "phase4", !.k = 1])
       ELSE LET ghRepo == mn.githubRepos[mn.k]
                repoName == toLowerCase(ghRepo)
                n == [mn EXCEPT !.currentOp = @ + 1]
                dirs == mn.config.searchDirs.dirs
            IN  mn' \in Dash(
                  IF MapHas(mn.localRepos, repoName)
                  THEN Start(n, Call("pull", repoName,
                                     MapGet(mn.localRepos, repoName)))
                  ELSE IF dirs = <<>> THEN Throw(n, "searchDirs")
                  ELSE Start(n, Call("clone", ghRepo, join(dirs[1], ghRepo))))
    /\ UNCHANGED <<engineVars, sy>>

\* Phase 4, one iteration: const isEmpty = await isRepoEmpty(repoPath)
M_Phase4 ==
    /\ mn.pc = "phase4"
    /\ IF mn.k > Len(mn.localRepos)
       THEN mn' \in Dash([mn EXCEPT !.pc = "summary"])
       ELSE LET e == mn.localRepos[mn.k]
            IN  mn' \in Dash(Start([mn EXCEPT !.currentOp = @ + 1],
                                   Call("isEmpty", e.key, e.path)))
    /\ UNCHANGED <<engineVars, sy>>

\* if (isEmpty && config.deleteEmptyRepos) { deleteLocalRepo; deleteEmptyRepo }
\* else pushRepoSafe
M_Decide ==
    /\ mn.pc = "decide"
    /\ LET e == mn.localRepos[mn.k]
           dryRun == mn.config.dryRun
       IN  mn' \in Dash(
             IF mn.isEmpty /\ mn.config.deleteEmptyRepos
             THEN IF DeleteIssued(dryRun)
                  THEN Start(mn, Call("delete", e.key, e.path))
                  ELSE [mn EXCEPT
                          !.log = Append(@, Entry("retire", e.key, e.path,
                                                  Res(FALSE, FALSE, "dry run", 0),
                                                  Local(dryRun))),
                          !.k = @ + 1, !.pc = "phase4"]
             ELSE Start(mn, Call("push", e.key, e.path)))
    /\ UNCHANGED <<engineVars, sy>>

\* a call settles; the main that awaits it goes on with its result
M_Settle ==
    /\ \E call \in mn.inflight :
         \E res \in Settles(call.op) :
            LET n == [mn EXCEPT !.inflight = @ \ {call}]
            IN  mn' \in Dash(IF Awaited(call.op) THEN Continue(n, call, res)
                             ELSE n)
    /\ UNCHANGED <<engineVars, sy>>

\* the summary: dashLog(summary), completeDashboard(summary)
M_Complete ==
    /\ mn.pc = "summary"
    /\ mn' \in Dash([mn EXCEPT !.pc = "ended", !.status = "complete"])
    /\ UNCHANGED <<engineVars, sy>>

\* main().catch: console.error(err); await failDashboard(err.message)
M_Catch ==
    /\ mn.pc = "caught"
    /\ \E delivered \in BOOLEAN :
         mn' = [mn EXCEPT !.pc = "ended", !.status = "failed",
                          !.console = @ + 1, !.failCalls = @ + 1,
                          !.sent = mn.dashTask /\ delivered]
    /\ UNCHANGED <<engineVars, sy>>

\* no engine operation runs in the specifications of main and syncRepo
Parked ==
    /\ pc = "idle"
    /\ wt = Tree("base")
    /\ mtime = [f \in Files |-> 1]
    /\ head = Commit(0, Tree("base"))
    /\ origin = head
    /\ remote = head
    /\ hist = [head |-> {0}, remote |-> {0}]
    /\ baseTree = Tree("base")
    /\ staged = {}
    /\ backups = {}
    /\ tracked = {}
    /\ stashes = <<>>
    /\ env = [ignored |-> FALSE, now |-> 1, dirExists |-> TRUE,
              failBudget |-> MaxFailures, opsLeft |-> 0, tick |-> 1]
    /\ ps = ps0
    /\ rc = rc0
    /\ pu = pu0
    /\ ie = ie0
    /\ obs = obs0

\* any config, any account, any content of the search directories
InitMain ==
    /\ Parked
    /\ sy = sy0
    /\ \E token \in {"", "ghp"}, dryRun \in BOOLEAN, del \in BOOLEAN,
          defined \in BOOLEAN, dirs \in SearchDirs,
          github \in Listings(RemoteNames, MaxRemote),
          disk \in [{"d1", "d2"} -> Listings(EntryNames, MaxDirEntries)] :
         /\ ~defined => dirs = <<>>
         /\ \A d \in {"d1", "d2"} :
              (\A i \in DOMAIN dirs : dirs[i] # d) => disk[d] = <<>>
         /\ mn = [mn0 EXCEPT
                    !.pc = "start",
                    !.config = [githubToken |-> token, dryRun |-> dryRun,
                                deleteEmptyRepos |-> del,
                                searchDirs |-> [defined |-> defined,
                                                dirs |-> dirs]],
                    !.github = github, !.disk = disk]

NextMain ==
    \/ M_InitDashboard \/ M_Config \/ M_GetAllRepos \/ M_FindLocalRepos
    \/ M_Phase3 \/ M_Phase4 \/ M_Decide \/ M_Settle \/ M_Complete \/ M_Catch

SpecMain == InitMain /\ [][NextMain]_vars

---------------------------------------------------------------------------
(* syncRepo of the push-only sync, src/unnamed/part_001 106-155 *)

\* catch (err) { return { synced: false, reason: err.message } }
SyncCatch ==
    [sy EXCEPT !.pc = "done", !.result = [NoSync EXCEPT !.reason = "error"]]

SyncReturn(reason) ==
    [sy EXCEPT !.pc = "done", !.result = [NoSync EXCEPT !.reason = reason]]

\* DryRunReturns that never returns before the add
DryRunReturns_Never(dryRun) == FALSE

\* if (dryRun) { ...; return { synced: false, reason: 'dry run' } }
DryRunReturns(dryRun) == dryRun

\* const git = simpleGit(repoPath), before the try block
SY_Call ==
    /\ sy.pc = "start"
    /\ sy' = IF env.dirExists THEN [sy EXCEPT !.pc = "isrepo"]
             ELSE [sy EXCEPT !.pc = "thrown", !.threw = TRUE]
    /\ UNCHANGED <<engineVars, mn>>

\* const isRepo = await git.checkIsRepo()
SY_CheckIsRepo ==
    /\ sy.pc = "isrepo"
    /\ \E ok \in Outcomes :
         /\ env' = Charge(ok)
         /\ sy' = IF ~ok THEN SyncCatch
                  ELSE IF ~sy.isRepo THEN SyncReturn("not a repo")
                  ELSE [sy EXCEPT !.pc = "status"]
    /\ UNCHANGED <<pc, gitVars, ps, rc, pu, ie, obs, mn>>

\* const status = await git.status(); no changes; dry run
SY_Status ==
    /\ sy.pc = "status"
    /\ \E ok \in Outcomes :
         /\ env' = Charge(ok)
         /\ sy' = IF ~ok THEN SyncCatch
                  ELSE IF ~StatusDirty
                  THEN [SyncReturn("no changes") EXCEPT !.read = TRUE]
                  ELSE IF DryRunReturns(sy.dryRun)
                  THEN [SyncReturn("dry run") EXCEPT !.read = TRUE, !.dirty = TRUE]
                  ELSE [sy EXCEPT !.pc = "add", !.read = TRUE, !.dirty = TRUE]
    /\ UNCHANGED <<pc, gitVars, ps, rc, pu, ie, obs, mn>>

\* await git.add('.')
SY_Add ==
    /\ sy.pc = "add"
    /\ \E ok \in Outcomes :
         /\ env' = Charge(ok)
         /\ IF ok
            THEN GitAddAll /\ sy' = [sy EXCEPT !.pc = "commit", !.adds = @ + 1]
            ELSE sy' = [SyncCatch EXCEPT !.adds = @ + 1] /\ UNCHANGED staged
    /\ UNCHANGED <<pc, wt, mtime, head, origin, remote, hist, baseTree, backups,
                   tracked, stashes, ps, rc, pu, ie, obs, mn>>

\* await git.commit(message)
SY_Commit ==
    /\ sy.pc = "commit"
    /\ \E ok \in Outcomes :
         /\ env' = Charge(ok)
         /\ IF ok
            THEN GitCommit /\ sy' = [sy EXCEPT !.pc = "push", !.commits = @ + 1]
            ELSE /\ sy' = [SyncCatch EXCEPT !.commits = @ + 1]
                 /\ UNCHANGED <<head, hist, staged, backups, tracked>>
    /\ UNCHANGED <<pc, wt, mtime, origin, remote, baseTree, stashes, ps, rc, pu,
                   ie, obs, mn>>

\* try { await git.push() } catch (pushErr) { ... reason: 'push failed' }
SY_Push ==
    /\ sy.pc = "push"
    /\ \E ok \in Outcomes :
         /\ env' = Charge(ok)
         /\ IF ok /\ PushCan
            THEN /\ GitPush
                 /\ sy' = [sy EXCEPT !.pc = "done", !.pushes = @ + 1,
                                     !.result = [NoSync EXCEPT !.synced = TRUE]]
            ELSE /\ sy' = [sy EXCEPT !.pc = "done", !.pushes = @ + 1,
                                     !.result = [NoSync EXCEPT
                                                   !.reason = "push failed",
                                                   !.committed = TRUE]]
                 /\ UNCHANGED gitVars
    /\ UNCHANGED <<pc, ps, rc, pu, ie, obs, mn>>

\* any directory found by the scan, with any edits, and any dryRun flag
InitSync ==
    /\ pc = "idle"
    /\ wt \in [Files -> Contents]
    /\ mtime = [f \in Files |-> 1]
    /\ head = Commit(0, Tree("base"))
    /\ origin = head
    /\ \E t \in [Files -> {"base", "theirs"}] :
         remote = IF t = Tree("base") THEN head ELSE Commit(1, t)
    /\ hist = [head |-> {0}, remote |-> {0, remote.id}]
    /\ baseTree = Tree("base")
    /\ staged = {}
    /\ backups = {}
    /\ tracked = {}
    /\ stashes = <<>>
    /\ env \in [ignored : {FALSE}, now : {1}, dirExists : BOOLEAN,
                failBudget : {MaxFailures}, opsLeft : {0}, tick : {1}]
    /\ ps = ps0
    /\ rc = rc0
    /\ pu = pu0
    /\ ie = ie0
    /\ obs = obs0
    /\ mn = mn0
    /\ \E dryRun \in BOOLEAN, isRepo \in BOOLEAN :
         sy = [sy0 EXCEPT !.pc = "start", !.dryRun = dryRun, !.isRepo = isRepo]

NextSync ==
    SY_Call \/ SY_CheckIsRepo \/ SY_Status \/ SY_Add \/ SY_Commit \/ SY_Push

SpecSync == InitSync /\ [][NextSync]_vars

----------------------------------------------------------------------------
(* getAllRepos, src/sync-v3.js 393-409: the paginated listing of the remote
   account that main awaits in phase 1 *)

MaxPages == 2
MaxBatch == 1

\* what the endpoint answers to /users/<username>/repos?per_page=100&page=<p>
Served(p) ==
    IF p \in DOMAIN mn.ga.endpoint THEN mn.ga.endpoint[p]
    ELSE IF mn.ga.endless /\ mn.ga.endpoint # <<>>
    THEN mn.ga.endpoint[Len(mn.ga.endpoint)]
    ELSE <<>>

\* LastPage of a loop that no page ends
LastPage_Never(batch) == FALSE

\* if (batch.length === 0) break
LastPage(batch) == Len(batch) = 0

\* const repos = []; let page = 1
GA_Call ==
    /\ mn.ga.pc = "start"
    /\ mn' = [mn EXCEPT !.ga.pc = "fetch", !.ga.page = 1, !.ga.repos = <<>>]
    /\ UNCHANGED <<engineVars, sy>>

\* const batch = await githubApi(...page=${page}...): the request is
\* answered, or githubApi throws (fetch rejects, or !response.ok) and
\* getAllRepos with it
GA_Fetch ==
    /\ mn.ga.pc = "fetch"
    /\ mn.ga.page <= MaxPages + 2
    /\ \E ok \in BOOLEAN :
         mn' = IF ok
               THEN [mn EXCEPT !.ga.requested = Append(@, mn.ga.page),
                               !.ga.batch = Served(mn.ga.page),
                               !.ga.pc = "batch"]
               ELSE [mn EXCEPT !.ga.requested = Append(@, mn.ga.page),
                               !.ga.threw = TRUE, !.ga.pc = "threw"]
    /\ UNCHANGED <<engineVars, sy>>

\* if (batch.length === 0) break; repos.push(...batch); page++;
\* after the loop: return repos
GA_Batch ==
    /\ mn.ga.pc = "batch"
    /\ mn' = IF LastPage(mn.ga.batch)
             THEN [mn EXCEPT !.ga.result = mn.ga.repos, !.ga.pc = "done"]
             ELSE [mn EXCEPT !.ga.repos = @ \o mn.ga.batch,
                             !.ga.page = @ + 1, !.ga.pc = "fetch"]
    /\ UNCHANGED <<engineVars, sy>>

InitRepos ==
    /\ Parked
    /\ sy = sy0
    /\ \E endpoint \in UNION {[1..m -> Listings(RemoteNames, MaxBatch)] :
                                m \in 0..MaxPages},
          endless \in BOOLEAN :
         mn = [mn0 EXCEPT !.ga = [ga0 EXCEPT !.pc = "start",
                                             !.endpoint = endpoint,
                                             !.endless = endless]]

NextRepos == GA_Call \/ GA_Fetch \/ GA_Batch

\* the continuation of an async function runs once the awaited promise has
\* settled: a step that can be taken is taken
SpecRepos == InitRepos /\ [][NextRepos]_vars /\ WF_vars(NextRepos)

---------------------------------------------------------------------------
(* Properties *)

\* no call was made to reject since the running pullRepoSafe was entered
NoInjected == env.failBudget = ps.budget0
\* the entry that the running iteration of resolveConflicts pushed
Last == rc.resolutions[Len(rc.resolutions)]
\* the content whose digest detectConflicts recorded
LocalContent(d) == d.localHash[2]
BackupOf(f, marker) == {b \in OnDisk : b.file = f /\ b.marker = marker}

\* C1 (as claimed): when resolveConflicts returns, every file of the conflict
\* list has a `local` backup on disk and, when the pulled content differs
\* from the local content, a `remote` backup as well.  Stated for the calls
\* in which no git or filesystem call rejected.
C1_BackupsOnDisk ==
    (pc = "rc_ret" /\ NoInjected) =>
       \A k \in 1..Len(rc.conflicts) :
          LET d == rc.conflicts[k]
          IN  /\ BackupOf(d.file, "local") # {}
              /\ LocalContent(d) # origin.tree[d.file]
                   => BackupOf(d.file, "remote") # {}

\* C2 (as claimed): after a local-newer decision the `remote` backup of the
\* file holds the content that the pull placed at the path.
C2_RemoteBackupHoldsRemote ==
    (pc = "rc_add" /\ NoInjected /\ Last.resolution = "local-newer") =>
       \E b \in BackupOf(Conflict.file, "remote") :
          b.ts = rc.timestamp /\ b.content = origin.tree[Conflict.file]

\* C3 (as claimed): a file whose local content differs from the remote
\* content and whose modification time after the pull is not older than the
\* local one is reported remote-newer, has the remote content at its path
\* and has a `local` backup on disk that holds the content recorded at
\* detection.
C3_RemoteNewerKeepsLocalBackup ==
    (/\ pc = "rc_add" /\ NoInjected
     /\ Conflict.localHash # rc.remoteHash
     /\ rc.remoteMtime >= Conflict.localMtime) =>
       /\ Last.resolution = "remote-newer"
       /\ wt[Conflict.file] = origin.tree[Conflict.file]
       /\ \E b \in OnDisk :
             Path(b) = rc.localBackup /\ b.content = LocalContent(Conflict)

\* C4 (as claimed): when resolveConflicts has processed the batch, a file
\* with distinct modification times and distinct contents has the version
\* with the later modification time at its path.
C4_LaterVersionAtPath ==
    (pc = "rc_ret" /\ NoInjected) =>
       \A k \in 1..Len(rc.resolutions) :
          LET r == rc.resolutions[k]
              d == rc.conflicts[k]
          IN  (/\ r.resolution \in {"local-newer", "remote-newer"}
               /\ r.localMtime # r.remoteMtime
               /\ LocalContent(d) # origin.tree[r.file]) =>
                 wt[r.file] = IF r.localMtime > r.remoteMtime
                              THEN LocalContent(d) ELSE origin.tree[r.file]

\* C5 (as claimed): equal digests give the outcome identical and no backup
\* file, neither `local` nor `remote`, is created for the file.
C5_IdenticalNoBackup ==
    (pc = "rc_add" /\ Conflict.localHash = rc.remoteHash) =>
       /\ Last.resolution = "identical"
       /\ rc.localBackup = NoBackup
       /\ ~\E b \in BackupOf(Conflict.file, "remote") : b.ts = rc.timestamp

\* C5 (amended): equal digests and a local modification time that is not
\* greater than the one after the pull give the outcome identical, and no
\* `remote` backup is created for the file; the `local` backup of step 1 has
\* been written before.
C5_IdenticalWhenNotLocalNewer ==
    (/\ pc = "rc_add"
     /\ Conflict.localHash = rc.remoteHash
     /\ Conflict.localMtime <= rc.remoteMtime) =>
       /\ Last.file = Conflict.file
       /\ Last.resolution = "identical"
       /\ rc.localBackup # NoBackup
       /\ ~\E b \in BackupOf(Conflict.file, "remote") : b.ts = rc.timestamp

C5_Witness ==
    /\ pc = "rc_add"
    /\ Conflict.localHash = rc.remoteHash
    /\ Conflict.localMtime <= rc.remoteMtime
    /\ Last.resolution = "identical"

\* C6: in pushRepoSafe, a rejected first push followed by a Safe Puller call
\* that pulled or was up to date and by an accepted second push gives
\* pushed: true with retried: true; two rejected pushes give pushed: false;
\* no invocation makes more than two push attempts.
C6_PushRetry ==
    /\ pu.attempts <= 2
    /\ (pc = "pu_ret" /\ pu.attempts = 2 /\ pu.rejected = 1) =>
          PullAllows(pu.pull) /\ pu.result.pushed /\ pu.result.retried
    /\ (pc = "pu_ret" /\ pu.rejected = 2) => ~pu.result.pushed
    /\ (pc = "pu_ret" /\ pu.result.retried) => pu.attempts = 2

C6_Witness ==
    /\ pc = "pu_ret"
    /\ pu.attempts = 2
    /\ pu.rejected = 1
    /\ pu.result.pushed
    /\ pu.result.retried

\* C7: a pullRepoSafe call entered on a clean working tree that is up to
\* date with the remote creates no backup file and no stash entry, and, when
\* no call rejects, returns pulled: false with reason 'up to date' and
\* leaves the repository clean and up to date for the next call.
C7_PullIdempotent ==
    (pc = "ps_ret" /\ ps.clean0) =>
       /\ Cardinality(OnDisk) = ps.backups0
       /\ Len(stashes) = ps.stashes0
       /\ NoInjected =>
            /\ ps.result = [NoResult EXCEPT !.reason = "up to date"]
            /\ ~StatusDirty
            /\ UpToDate

\* the second of two successive calls on an up-to-date repository returns
C7_Witness ==
    /\ pc = "ps_ret"
    /\ ps.clean0
    /\ ps.result.reason = "up to date"
    /\ obs.op = "pull"
    /\ obs.pull.reason = "up to date"
    /\ env.failBudget = MaxFailures

\* C8 (as claimed): isRepoEmpty returns true exactly when the repository has
\* no commit, or one commit whose top-level tree lists a single entry whose
\* name starts, case-insensitively, with "readme".  Stated for the calls in
\* which no git call was made to reject.
C8_EmptyClassification ==
    (pc = "ie_done" /\ env.failBudget = MaxFailures) =>
       ie.result = (\/ ie.commits = 0
                    \/ /\ ie.commits = 1
                       /\ Len(ie.names) = 1
                       /\ startsWith(toLowerCase(ie.names[1]), readme))

\* C9 (as claimed): no exception leaves a per-repository operation.
C9_NoExceptionEscapes == pc # "escaped"

\* C10: when status, fetch or diff rejects inside detectConflicts, the
\* resolver is not entered and pullRepoSafe goes on with the stash (when the
\* tree is dirty) and the pull; a failure that pullRepoSafe then reports
\* comes from that stash or that pull.
C10_FailOpen ==
    ps.detectFailed =>
       /\ pc \in {"ps_stash", "ps_pull", "ps_ret"}
       /\ rc = rc0
       /\ pc = "ps_stash" => ps.dirty
       /\ pc = "ps_pull" => (ps.dirty => ps.stashed)
       /\ pc = "ps_ret" =>
            \/ ps.pulls = 1 /\ ps.threw = "none" /\ (ps.dirty => ps.stashed)
            \/ ps.threw \in {"stash", "pull"}

C10_Witness ==
    /\ ps.detectFailed
    /\ pc = "ps_ret"
    /\ ps.dirty
    /\ ps.stashed
    /\ ps.pulls = 1

\* C11 (as claimed): on the conflict path pullRepoSafe reports pulled exactly
\* when a file of the batch was resolved or skipped, and the counts resolved,
\* skipped and failed add up to the number of detected conflicts.
C11_ConflictCounts ==
    (pc = "ps_ret" /\ ps.result.conflicts > 0) =>
       /\ ps.result.pulled <=> (ps.result.resolved > 0 \/ ps.result.skipped > 0)
       /\ ps.result.resolved + ps.result.skipped + ps.result.failed
            = ps.result.conflicts

\* C12: in pushRepoSafe, when the local tip and the fetched remote tip
\* differ, pullRepoSafe is called and has returned before anything is staged;
\* when that pull returns neither pulled: true nor reason 'up to date',
\* pushRepoSafe returns pushed: false with reason 'pull failed before push'
\* and has made no add, no commit and no push.
C12_PullBeforeStage ==
    LET made == pu.adds + pu.commits + pu.attempts
        refused == ~pu.pull.pulled /\ pu.pull.reason # "up to date"
    IN  /\ pu.differ => pu.pulls >= 1
        /\ (pu.differ /\ pc \in {"pu_add", "pu_commit", "pu_push"}) => ~refused
        /\ (pu.differ /\ made > 0 /\ pu.pulls = 1) => ~refused
        /\ (pu.differ /\ pu.pulls = 1 /\ refused /\ pc = "pu_ret") =>
              /\ pu.result = [NoPush EXCEPT !.reason = "pull failed before push"]
              /\ made = 0
        /\ pu.result.reason = "pull failed before push" =>
              pu.differ /\ refused /\ made = 0 /\ ~pu.result.pushed

C12_Witness ==
    /\ pc = "pu_ret"
    /\ pu.differ
    /\ pu.pull.reason = "error"
    /\ pu.result.reason = "pull failed before push"
    /\ pu.adds = 0

\* C13 (as claimed): no file receives two Resolution records in one
\* resolveConflicts pass, and every file recorded as resolved is staged
\* (when it differs from the tip) before the next file is processed.
C13_OneRecordPerFile ==
    /\ \A i, j \in DOMAIN rc.resolutions :
         rc.resolutions[i].file = rc.resolutions[j].file => i = j
    /\ (pc \in {"rc_backup", "rc_ret"} /\ Len(rc.resolutions) > 0) =>
         \/ Last.resolution \in {"failed", "skipped"}
         \/ wt[Last.file] = head.tree[Last.file]
         \/ Last.file \in staged

\* C14: at no point of a run are two calls (git or network) in flight, main
\* does nothing while a call is in flight, and the calls on one repository
\* are all settled before the first call on the next repository starts.
C14_Serial ==
    /\ Cardinality(mn.inflight) <= 1
    /\ mn.inflight # {} => mn.pc = "await"
    /\ \A call \in mn.inflight :
         \A i \in DOMAIN mn.log :
            mn.log[i].path = call.path => i = Len(mn.log)
    /\ \A i, j \in DOMAIN mn.log :
         (i < j /\ mn.log[i].path = mn.log[j].path) =>
            \A m \in i..j : mn.log[m].path = mn.log[i].path

C14_Witness ==
    /\ \E call \in mn.inflight : call.op = "push"
    /\ Len(mn.log) >= 2
    /\ mn.log[1].op = "pull"
    /\ mn.log[2].op = "clone"

\* C15 (as claimed): with config.dryRun set, a run of main executes no
\* mutating operation: no git clone is started, no pullRepoSafe call ends
\* with a pull made, no pushRepoSafe call ends with a push made, and no
\* remote delete is sent.
C15_DryRunMutatesNothing ==
    mn.config.dryRun =>
       /\ \A call \in mn.inflight : call.op \notin {"clone", "delete"}
       /\ \A i \in DOMAIN mn.log :
            /\ mn.log[i].op # "clone"
            /\ mn.log[i].op \in {"pull", "push"} => ~mn.log[i].ok
            /\ mn.log[i].op = "retire" => mn.log[i].reason = "dry run"

\* C16: with dryRun set, syncRepo makes no add, no commit and no push and
\* leaves the index and the branch tip as they were, whatever the working
\* tree holds; when it returns, synced is false, and once the status has been
\* read the reason is 'dry run' for a tree with changes and 'no changes' for
\* a tree without.
C16_SyncDryRun ==
    sy.dryRun =>
       /\ sy.adds = 0 /\ sy.commits = 0 /\ sy.pushes = 0
       /\ staged = {} /\ head.id = 0 /\ remote.id \in {0, 1}
       /\ sy.pc \notin {"add", "commit", "push"}
       /\ sy.pc = "done" => ~sy.result.synced /\ ~sy.result.committed
       /\ (sy.pc = "done" /\ sy.read) =>
             sy.result.reason = IF StatusDirty THEN "dry run" ELSE "no changes"

C16_Witness ==
    /\ sy.dryRun
    /\ sy.pc = "done"
    /\ Modified # {}
    /\ sy.result.reason = "dry run"

\* the credential is missing, or the search directories are missing or empty
ConfigError ==
    \/ mn.config.githubToken = ""
    \/ ~mn.config.searchDirs.defined
    \/ mn.config.searchDirs.dirs = <<>>

\* C17 (as claimed): with a configuration error the run makes no call on any
\* repository and ends as failed, the failure reported exactly once.
C17_ConfigErrorAborts ==
    ConfigError =>
       /\ mn.log = <<>>
       /\ \A call \in mn.inflight : call.op = "getAllRepos"
       /\ mn.pc = "ended" =>
            mn.status = "failed" /\ mn.console = 1 /\ mn.failCalls = 1

\* the local inventory of the run and what is left of it for phase 4
Inventory == findLocalRepos(mn.config.searchDirs.dirs, mn.disk)
Unpaired ==
    SelectSeq(Inventory,
              LAMBDA e : \A i \in DOMAIN mn.github :
                            toLowerCase(mn.github[i]) # e.key)

\* the number of lines of the log that a test selects, and the sum of the
\* resolved files of the pulls that returned
Lines(Test(_)) == Cardinality({i \in DOMAIN mn.log : Test(mn.log[i])})
RECURSIVE SumResolved(_)
SumResolved(log) ==
    IF log = <<>> THEN 0
    ELSE (IF Head(log).op = "pull" /\ ~Head(log).threw
          THEN Head(log).resolved ELSE 0) + SumResolved(Tail(log))

\* the counters as the results of the calls made so far determine them
Tally ==
    [pulled |-> Lines(LAMBDA e : e.op = "pull" /\ e.ok),
     pushed |-> Lines(LAMBDA e : e.op = "push" /\ e.ok),
     cloned |-> Lines(LAMBDA e : e.op = "clone" /\ e.ok),
     emptyDeleted |-> Lines(LAMBDA e : e.op = "retire" /\ e.ok),
     upToDate |-> Lines(LAMBDA e : \/ e.op = "pull" /\ e.reason = "up to date"
                                   \/ e.op = "push" /\ e.reason = "no changes"),
     failed |-> Lines(LAMBDA e : /\ e.op \in {"pull", "clone", "push"}
                                 /\ ~e.ok /\ ~e.threw
                                 /\ e.reason = "error"),
     conflictsResolved |-> SumResolved(mn.log)]

\* C18: whatever the dashboard does (no task, requests delivered, requests
\* failing), the calls made on the repositories, in their order, and the
\* counters are determined by the config, the inventories and the results of
\* the calls alone, a run that no call and no config error stops reaches the
\* summary with every planned call made, and no run ends because of a
\* notification.
C18_DashboardIndependence ==
    LET inventory == Inventory
        unpaired == Unpaired
        remotes == Len(mn.github)
    IN  /\ mn.cause # "dashboard"
        /\ mn.results = Tally
        /\ \A i \in DOMAIN mn.log :
             IF i <= remotes
             THEN /\ toLowerCase(mn.log[i].key) = toLowerCase(mn.github[i])
                  /\ mn.log[i].op =
                       IF MapHas(inventory, toLowerCase(mn.github[i]))
                       THEN "pull" ELSE "clone"
             ELSE /\ i - remotes <= Len(unpaired)
                  /\ mn.log[i].key = unpaired[i - remotes].key
                  /\ mn.log[i].path = unpaired[i - remotes].path
                  /\ mn.log[i].op \in {"push", "retire"}
        /\ mn.pc = "ended" =>
             IF mn.status = "complete"
             THEN Len(mn.log) = remotes + Len(unpaired)
             ELSE mn.cause \in {"githubToken", "getAllRepos", "searchDirs",
                                "pullRepoSafe", "pushRepoSafe"}

C18_Witness ==
    /\ mn.pc = "ended"
    /\ mn.status = "complete"
    /\ mn.dashTask
    /\ ~mn.sent
    /\ Len(mn.log) = 3
    /\ mn.results.pulled = 1
    /\ mn.results.pushed = 1

\* the git repositories that the search directories of the config hold
LocalDirs ==
    UNION {{join(d, mn.disk[d][j]) : j \in DOMAIN mn.disk[d]} :
             d \in {mn.config.searchDirs.dirs[i] :
                      i \in DOMAIN mn.config.searchDirs.dirs}}

\* a local repository whose lower-cased name is that of a remote repository
PairedDir(p) ==
    \E i \in DOMAIN mn.github : toLowerCase(mn.github[i]) = toLowerCase(p[2])

\* C19 (as claimed): in a run that reaches the summary, every remote
\* repository with a matching local repository got exactly one pullRepoSafe
\* call and no clone, every other remote repository exactly one clone
\* attempt, and every local repository was handled exactly once: by the pull
\* if it is paired, by a push or a retirement if it is not.
C19_Dispatch ==
    (mn.pc = "ended" /\ mn.status = "complete") =>
       /\ \A i \in DOMAIN mn.github :
            LET key == toLowerCase(mn.github[i])
                pulls == {m \in DOMAIN mn.log :
                            mn.log[m].op = "pull" /\ mn.log[m].key = key}
                clones == {m \in DOMAIN mn.log :
                             mn.log[m].op = "clone"
                               /\ toLowerCase(mn.log[m].key) = key}
            IN  IF \E p \in LocalDirs : toLowerCase(p[2]) = key
                THEN Cardinality(pulls) = 1 /\ clones = {}
                ELSE Cardinality(clones) = 1 /\ pulls = {}
       /\ \A p \in LocalDirs :
            LET calls == {m \in DOMAIN mn.log :
                            mn.log[m].op # "clone" /\ mn.log[m].path = p}
            IN  /\ Cardinality(calls) = 1
                /\ \A m \in calls :
                     IF PairedDir(p) THEN mn.log[m].op = "pull"
                     ELSE mn.log[m].op \in {"push", "retire"}

\* the retirements recorded so far
Retired == {i \in DOMAIN mn.log : mn.log[i].op = "retire"}

\* C20: a local repository classified empty while deleteEmptyRepos is set is
\* never given to pushRepoSafe; the remote delete is sent only when dryRun is
\* false; emptyDeleted counts exactly the delete calls that succeeded; and
\* deleteLocalRepo never removes the local directory.
C20_Retirement ==
    /\ \A call \in mn.inflight :
         /\ call.op = "push" => ~(mn.isEmpty /\ mn.config.deleteEmptyRepos)
         /\ call.op = "delete" =>
              mn.isEmpty /\ mn.config.deleteEmptyRepos /\ ~mn.config.dryRun
    /\ (mn.pc = "phase4" /\ mn.k > 1 /\ mn.isEmpty /\ mn.config.deleteEmptyRepos)
         => /\ mn.log # <<>>
            /\ mn.log[Len(mn.log)].op = "retire"
            /\ mn.log[Len(mn.log)].path = mn.localRepos[mn.k - 1].path
    /\ \A i \in Retired :
         /\ mn.config.deleteEmptyRepos
         /\ mn.log[i].local = "kept"
         /\ ~mn.log[i].threw
         /\ mn.log[i].reason = "dry run" <=> mn.config.dryRun
         /\ mn.log[i].ok => ~mn.config.dryRun
    /\ mn.results.emptyDeleted = Cardinality({i \in Retired : mn.log[i].ok})
    /\ deleteLocalRepo(TRUE).deleted = FALSE
    /\ deleteLocalRepo(FALSE).deleted = FALSE

C20_Witness ==
    /\ mn.pc = "phase4"
    /\ Retired # {}
    /\ mn.log[Len(mn.log)].op = "retire"
    /\ mn.log[Len(mn.log)].ok
    /\ mn.results.emptyDeleted = 1


\* C21: for each file whose backup, stash and pull succeeded, the outcome
\* recorded by resolveConflicts is local-newer if the modification time
\* recorded at detection is strictly greater than the modification time of
\* the path after the pull, otherwise identical if the digest recorded at
\* detection equals the digest after the pull, otherwise remote-newer; the
\* path is written by the decision step only for local-newer.
C21_DecisionOrder ==
    [][pc = "rc_decide" =>
         LET f == Conflict.file
             rule == IF Conflict.localMtime > getFileMtime(wt, mtime, f)
                     THEN "local-newer"
                     ELSE IF Conflict.localHash = getFileHash(wt, f)
                     THEN "identical"
                     ELSE "remote-newer"
             last == rc'.resolutions[Len(rc'.resolutions)]
         IN  /\ last.file = f
             /\ last.resolution = rule
             /\ rule # "local-newer" => wt'[f] = wt[f]]_vars


\* C22 (as claimed): during one resolveConflicts call the stash-with-untracked
\* operation is executed at most once, whatever the number of conflicting
\* files.
C22_OneStashPerPass ==
    rc.stashCalls <= 1

\* C23: when the copy of a conflicting file to its `local` backup fails,
\* resolveConflicts records `skipped` for that file, executes no stash, pull,
\* restore or stage for it (the repository and the backups are untouched),
\* and goes on with the next file of the batch, or returns after the last.
C23_BackupFailureSkips ==
    [][(pc = "rc_backup" /\ pc' # "rc_stash") =>
         LET last == rc'.resolutions[Len(rc'.resolutions)]
         IN  /\ rc'.resolutions = Append(rc.resolutions, last)
             /\ last.file = Conflict.file
             /\ last.resolution = "skipped"
             /\ last.reason = "backup failed"
             /\ UNCHANGED <<gitVars, backups>>
             /\ rc'.stashCalls = rc.stashCalls
             /\ ps'.pulls = ps.pulls
             /\ rc'.conflicts = rc.conflicts
             /\ rc'.i = rc.i + 1
             /\ pc' = IF rc.i < Len(rc.conflicts) THEN "rc_backup" ELSE "rc_ret"]_vars

\* the first file of a batch of two was skipped and the second is processed
C23_Witness ==
    /\ pc = "rc_stash"
    /\ rc.i = 2
    /\ Len(rc.conflicts) = 2
    /\ Len(rc.resolutions) = 1
    /\ rc.resolutions[1].resolution = "skipped"
    /\ rc.resolutions[1].file = rc.conflicts[1].file

\* C24 (as claimed): resolveConflicts returns one Resolution per input
\* conflict, in input order: the result has the length of the conflict list,
\* its i-th entry names the i-th conflicting file, and every outcome is one of
\* identical, local-newer, remote-newer, skipped, failed.
C24_OneResolutionPerConflict ==
    pc = "rc_ret" =>
       /\ Len(rc.resolutions) = Len(rc.conflicts)
       /\ \A i \in 1..Len(rc.conflicts) :
            /\ i \in DOMAIN rc.resolutions
            /\ rc.resolutions[i].file = rc.conflicts[i].file
            /\ rc.resolutions[i].resolution \in
                 {"identical", "local-newer", "remote-newer", "skipped", "failed"}


\* C25 (as claimed): when the working tree has no locally modified file,
\* detectConflicts reports no conflict without having executed a fetch.
C25_NoFetchWhenClean ==
    (pc \in {"dc_diff", "ps_stash", "ps_pull", "ps_ret"} /\ ~ps.dirty) => ~ps.fetched


\* the locally modified paths, in status order, that the name-only diff
\* between the local tip and the fetched remote tip lists as well
ChangedOnBothSides ==
    SelectSeq(FileOrder, LAMBDA f : /\ wt[f] # head.tree[f] \/ f \in staged
                                    /\ head.tree[f] # origin.tree[f])

\* C26: when status, fetch and diff succeed, the conflict list returned by
\* detectConflicts holds one descriptor for each locally modified path that
\* the name-only diff between the local tip and the fetched remote tip lists
\* too, in status order, and none for any other path; hasConflicts is true
\* exactly when that list is not empty.
C26_ConflictsAreIntersection ==
    /\ (pc = "rc_backup" /\ rc.i = 1 /\ rc.resolutions = <<>>) =>
          /\ ChangedOnBothSides # <<>>
          /\ [k \in 1..Len(rc.conflicts) |-> rc.conflicts[k].file]
               = ChangedOnBothSides
    /\ (pc \in {"ps_stash", "ps_pull"} /\ ~ps.detectFailed /\ ~ps.stashed) =>
          ChangedOnBothSides = <<>>

\* two files are modified locally and one of them is changed on the remote
C26_Witness ==
    /\ pc = "rc_backup"
    /\ rc.i = 1
    /\ rc.resolutions = <<>>
    /\ Len(rc.conflicts) = 1
    /\ \A f \in Files : wt[f] # head.tree[f]
    /\ ps.fetched


\* C27: in every execution of pullRepoSafe, the resolver path and the
\* fail-open path included, git pull is issued only on a working tree without
\* uncommitted modifications; when the status read at the start showed
\* modifications a stash-with-untracked has completed before the pull, and a
\* stash that rejects is not followed by the pull.
C27_StashBeforePull ==
    /\ [](pc \in {"rc_pull", "ps_pull"} =>
            /\ \A f \in Files : wt[f] = head.tree[f]
            /\ staged = {}
            /\ Untracked = {}
            /\ ps.dirty => (ps.stashed \/ rc.stashCalls > 0))
    /\ [][(\/ pc = "ps_stash" /\ ~ps'.stashed
           \/ pc = "rc_stash" /\ rc'.stashCalls = rc.stashCalls) =>
            /\ pc' \notin {"rc_pull", "ps_pull"}
            /\ ps'.pulls = ps.pulls
            /\ UNCHANGED gitVars]_vars

\* the pull of the second file of a batch, after the first was restored
C27_Witness ==
    /\ pc = "rc_pull"
    /\ rc.i = 2
    /\ rc.stashCalls = 2
    /\ rc.resolutions[1].resolution = "local-newer"
    /\ ps.dirty

\* the fail-open path: detection failed on a modified tree, pull after stash
C27_WitnessFailOpen ==
    /\ pc = "ps_pull"
    /\ ps.detectFailed
    /\ ps.dirty
    /\ ps.stashed


\* C28: pushRepoSafe on a repository with no local modification returns
\* pushed: false with reason 'no changes' and executes no fetch, no pull, no
\* add, no commit and no push.
C28_NoChangesNoCalls ==
    (pc \in {"pu_status", "pu_fetch", "pu_revparse", "pu_pulled", "pu_add",
             "pu_commit", "pu_push", "pu_retry", "pu_push2", "pu_ret"}
       /\ ~pu.dirty0) =>
       /\ ~pu.fetched
       /\ pu.pulls = 0
       /\ pu.adds = 0
       /\ pu.commits = 0
       /\ pu.attempts = 0
       /\ pc \in {"pu_status", "pu_ret"}
       /\ (pc = "pu_ret" /\ pu.result.reason # "error") =>
             pu.result = [pushed |-> FALSE, reason |-> "no changes",
                          retried |-> FALSE]

\* pushRepoSafe has returned 'no changes' on a repository that is behind the
\* remote
C28_Witness ==
    /\ pc = "pu_ret"
    /\ ~pu.dirty0
    /\ pu.result.reason = "no changes"
    /\ ~pu.result.pushed
    /\ head.id # remote.id


\* C29 (as claimed): after every rejection of the first push in pushRepoSafe
\* the Safe Puller is run exactly once more and the push is then retried
\* exactly once, whatever the result of that Safe Puller call.
C29_RetryAfterEveryRejection ==
    (pc = "pu_ret" /\ pu.rejected > 0) =>
       /\ pu.pulls = (IF pu.differ THEN 2 ELSE 1)
       /\ pu.attempts = 2


\* a repository of phase 3 or phase 4 is being processed
Processing ==
    /\ mn.pc \in {"await", "decide"}
    /\ \A call \in mn.inflight : call.op # "getAllRepos"

\* C30: across phases 3 and 4 the reported progress numerator is the number
\* of repositories processed so far (the one in progress included), it
\* grows by one at a time and never decreases, it never exceeds the
\* denominator, and the denominator is the number of remote repositories
\* plus the number of local repositories found before phase 3 and does not
\* change during the run.
C30_Progress ==
    /\ [](/\ mn.currentOp <= mn.totalOps
          /\ mn.pc \in {"phase3", "phase4", "summary"} =>
                mn.currentOp = Len(mn.log)
          /\ Processing => mn.currentOp = Len(mn.log) + 1
          /\ (Processing \/ mn.pc \in {"phase3", "phase4", "summary"}) =>
                mn.totalOps = Len(mn.githubRepos) + Len(Inventory))
    /\ [][/\ mn'.currentOp \in {mn.currentOp, mn.currentOp + 1}
          /\ mn.pc # "phase2" => mn'.totalOps = mn.totalOps]_vars

\* a run that cloned one repository and pushed another has ended with the
\* numerator at the denominator
C30_Witness ==
    /\ mn.pc = "ended"
    /\ mn.status = "complete"
    /\ mn.totalOps = 2
    /\ mn.currentOp = 2
    /\ Len(mn.log) = 2
    /\ mn.log[1].op = "clone"
    /\ mn.log[2].op = "push"


\* the concatenation of the pages 1..p of the endpoint
RECURSIVE PagesUpTo(_)
PagesUpTo(p) == IF p = 0 THEN <<>> ELSE PagesUpTo(p - 1) \o Served(p)

\* the endpoint has an empty page
ServesEmptyPage == \E p \in 1..(MaxPages + 1) : Served(p) = <<>>

\* C31: getAllRepos requests the pages 1, 2, 3, ... in order and no page
\* after the first empty one, returns the concatenation of the pages
\* received before the first empty page, and terminates whenever the
\* endpoint has an empty page.
C31_Paging ==
    /\ [](/\ \A i \in DOMAIN mn.ga.requested :
               /\ mn.ga.requested[i] = i
               /\ i > 1 => Served(i - 1) # <<>>
          /\ mn.ga.pc = "done" =>
               LET n == Len(mn.ga.requested)
               IN  /\ n >= 1
                   /\ Served(n) = <<>>
                   /\ mn.ga.result = PagesUpTo(n - 1)
                   /\ ~mn.ga.threw)
    /\ (mn.ga.pc = "start" /\ ServesEmptyPage) ~> (mn.ga.pc \in {"done", "threw"})

\* two pages with a repository each were received before the empty third
C31_Witness ==
    /\ mn.ga.pc = "done"
    /\ mn.ga.requested = <<1, 2, 3>>
    /\ Len(mn.ga.result) = 2
    /\ mn.ga.result = mn.ga.endpoint[1] \o mn.ga.endpoint[2]


\* C32 (as claimed): whenever pullRepoSafe returns pulled: true, a git pull
\* was executed and succeeded on the repository during the call.
C32_PulledMeansPull ==
    (pc = "ps_ret" /\ ps.result.pulled) => ps.pulls > 0


\* C33 (as claimed): whenever pushRepoSafe returns pushed: true, the local
\* modifications present in the working tree when it was called are in the
\* commit that was pushed, and not left in a stash entry made by the Safe
\* Puller call that preceded the staging.
C33_PushedHoldsLocalChanges ==
    (pc = "pu_ret" /\ pu.result.pushed) =>
       \A f \in pu.mods0 :
          /\ remote.tree[f] = pu.wt0[f]
          /\ \A i \in DOMAIN stashes :
               f \in DOMAIN stashes[i].mods => stashes[i].mods[f] # pu.wt0[f]


\* C34: no step of the sync removes or rewrites a stash entry, so the number
\* of stash entries of a repository never decreases, and when pullRepoSafe
\* has taken the stash path the modifications that were uncommitted at the
\* call are the content of the newest stash entry while the working tree is
\* that of the tip: where the tip differs from a modification, so does the
\* working tree.
C34_StashNeverRestored ==
    /\ [][/\ Len(stashes') >= Len(stashes)
          /\ SubSeq(stashes', Len(stashes') - Len(stashes) + 1, Len(stashes'))
               = stashes]_vars
    /\ []((pc = "ps_ret" /\ ps.stashed) =>
            /\ Len(stashes) = ps.stashes0 + 1
            /\ stashes[1].mods = ps.mods0
            /\ staged = {}
            /\ \A f \in Files : wt[f] = head.tree[f]
            /\ \A f \in DOMAIN ps.mods0 :
                 head.tree[f] # ps.mods0[f] => wt[f] # ps.mods0[f])

\* the stash path was taken with a local edit and the pull brought changes
C34_Witness ==
    /\ pc = "ps_ret"
    /\ ps.stashed
    /\ ps.result.pulled
    /\ \E f \in Files : f \in DOMAIN ps.mods0 /\ wt[f] # ps.mods0[f]
    /\ stashes # <<>>
    /\ stashes[1].mods = ps.mods0


\* the files resolved by the resolveConflicts calls made during the calls of
\* the log
RECURSIVE SumInner(_)
SumInner(log) ==
    IF log = <<>> THEN 0 ELSE Head(log).inner + SumInner(Tail(log))

\* C35 (as claimed): at the end of a run the conflictsResolved counter equals
\* the number of files resolved by all the resolveConflicts calls of the run,
\* those made by the Safe Puller calls inside pushRepoSafe in phase 4
\* included.
C35_ConflictsResolvedTotal ==
    (mn.pc = "ended" /\ mn.status = "complete") =>
       mn.results.conflictsResolved = SumInner(mn.log)

\* pushRepoSafe is about to return pushed: true after a Safe Puller call of
\* its own that resolved a conflict
PushResolvedInside ==
    /\ pc = "pu_ret"
    /\ pu.result.pushed
    /\ pu.pull.resolved > 0


\* the six outcome counters and their sum
OutcomeCounters ==
    {"pulled", "pushed", "cloned", "emptyDeleted", "upToDate", "failed"}
OutcomeSum(results) ==
    results.pulled + results.pushed + results.cloned + results.emptyDeleted
      + results.upToDate + results.failed

\* C36: each repository processed in phases 3 and 4 increments at most one of
\* pulled, pushed, cloned, emptyDeleted, upToDate, failed, by one: the sum of
\* the six counters is at most the number of repositories whose call has
\* returned, hence at most the progress numerator, a step raises the sum by
\* at most one and only as it finishes a repository, and no counter ever
\* decreases.
C36_CounterAccounting ==
    /\ [](/\ OutcomeSum(mn.results) <= Len(mn.log)
          /\ OutcomeSum(mn.results) <= mn.currentOp)
    /\ [][/\ \A c \in OutcomeCounters :
               mn'.results[c] \in {mn.results[c], mn.results[c] + 1}
          /\ mn'.results.conflictsResolved >= mn.results.conflictsResolved
          /\ OutcomeSum(mn'.results) \in
               {OutcomeSum(mn.results), OutcomeSum(mn.results) + 1}
          /\ OutcomeSum(mn'.results) # OutcomeSum(mn.results) =>
               Len(mn'.log) = Len(mn.log) + 1]_vars

\* a run that cloned a repository, failed to push another and retired a
\* third without a delete has ended
C36_Witness ==
    /\ mn.pc = "ended"
    /\ mn.status = "complete"
    /\ mn.currentOp = 3
    /\ mn.results.cloned = 1
    /\ mn.results.failed = 1
    /\ OutcomeSum(mn.results) = 2

===========================================================================
